---- MODULE Spec2Model ----
(***************************************************************************)
(* Model of tests/utils/markdown_link_validator.py (MarkdownLinkValidator). *)
(*                                                                         *)
(* Text representation.  A Python str is modelled as a sequence of tokens. *)
(* A token is one character, except that a maximal run of ASCII letters    *)
(* and digits is a single token ("docs", "README", "md").  So the path     *)
(* docs/b.md is <<"docs", "/", "b", ".", "md">> and the link [x](#a) is    *)
(* <<"[", "x", "]", "(", "#", "a", ")">>.  Every character class the code  *)
(* tests (whitespace, '#', '/', '`', brackets, \w, ...) is then a test on  *)
(* whole tokens.  A document's content is the sequence of its lines.       *)
(*                                                                         *)
(* A pathlib.Path is modelled as the sequence of the segments of an        *)
(* absolute, symlink-free path; each segment is a str (token sequence).    *)
(***************************************************************************)
EXTENDS Integers, Sequences, FiniteSets, TLC

\* ------------------------------------------------------------------------
\* str helpers (Python built-ins the validator calls)
\* ------------------------------------------------------------------------

\* The backtick character (a string literal cannot hold one).
BT == "<backtick>"

\* The double-quote character and the NUL character, likewise.
DQ == "<dquote>"
NUL == "<nul>"

\* The whitespace characters that occur in the modelled texts.
IsSpace(t) == t \in {" ", "\t"}

\* s[i:] and s[:i] with Python's 0-based offsets turned into 1-based ones:
\* Drop(s, n) removes the first n tokens, Take(s, n) keeps the first n.
Drop(s, n) == IF n >= Len(s) THEN <<>> ELSE SubSeq(s, n + 1, Len(s))
Take(s, n) == IF n <= 0 THEN <<>> ELSE SubSeq(s, 1, IF n > Len(s) THEN Len(s) ELSE n)

\* str.startswith / str.endswith
StartsWith(s, p) == Len(p) <= Len(s) /\ SubSeq(s, 1, Len(p)) = p
EndsWith(s, p) == Len(p) <= Len(s) /\ SubSeq(s, Len(s) - Len(p) + 1, Len(s)) = p

\* `p in s` for strings: p occurs as a contiguous run of s.
Contains(s, p) == \E i \in 0..(Len(s) - Len(p)) : SubSeq(s, i + 1, i + Len(p)) = p

\* str.find(c) for a one-character c: the 1-based index of the first
\* occurrence at or after position from, or 0 when there is none.
Find(s, c, from) ==
  IF \E i \in from..Len(s) : s[i] = c
  THEN CHOOSE i \in from..Len(s) : s[i] = c /\ \A j \in from..(i - 1) : s[j] # c
  ELSE 0

\* str.lstrip(), str.rstrip(), str.strip() (whitespace)
RECURSIVE LStrip(_)
LStrip(s) == IF s # <<>> /\ IsSpace(Head(s)) THEN LStrip(Tail(s)) ELSE s
RECURSIVE RStrip(_)
RStrip(s) == IF s # <<>> /\ IsSpace(s[Len(s)]) THEN RStrip(Take(s, Len(s) - 1)) ELSE s
Strip(s) == RStrip(LStrip(s))

\* str.strip(c), str.lstrip(c), str.rstrip(c) for one character c
RECURSIVE LStripChar(_, _)
LStripChar(s, c) == IF s # <<>> /\ Head(s) = c THEN LStripChar(Tail(s), c) ELSE s
RECURSIVE RStripChar(_, _)
RStripChar(s, c) ==
  IF s # <<>> /\ s[Len(s)] = c THEN RStripChar(Take(s, Len(s) - 1), c) ELSE s
StripChar(s, c) == RStripChar(LStripChar(s, c), c)

\* str.replace(c, "") for one character c, and the general filter behind
\* re.sub of a one-character class by "".
RECURSIVE RemoveAll(_, _)
RemoveAll(s, cs) ==
  IF s = <<>> THEN <<>>
  ELSE IF Head(s) \in cs THEN RemoveAll(Tail(s), cs)
  ELSE <<Head(s)>> \o RemoveAll(Tail(s), cs)

\* str.split(c): the list of the pieces between the occurrences of c.
RECURSIVE SplitOn(_, _)
SplitOn(s, c) ==
  LET i == Find(s, c, 1)
  IN IF i = 0 THEN <<s>> ELSE <<Take(s, i - 1)>> \o SplitOn(Drop(s, i), c)

\* c.join(parts)
RECURSIVE Join(_, _)
Join(parts, c) ==
  IF parts = <<>> THEN <<>>
  ELSE IF Len(parts) = 1 THEN parts[1]
  ELSE parts[1] \o <<c>> \o Join(Tail(parts), c)

\* str.lower() on the words of the modelled texts; every other token of the
\* texts is already lower case or caseless.
LowerTok(t) ==
  CASE t = "Intro" -> "intro"
    [] t = "Setup" -> "setup"
    [] t = "README" -> "readme"
    [] t = "MD" -> "md"
    [] t = "Spec" -> "spec"
    [] t = "Driven" -> "driven"
    [] t = "Development" -> "development"
    [] t = "Foo" -> "foo"
    [] t = "Guide" -> "guide"
    [] t = "A" -> "a"
    [] t = "B" -> "b"
    [] t = "C" -> "c"
    [] t = "MAILTO" -> "mailto"
    [] t = "Example" -> "example"
    [] t = "COM" -> "com"
    [] OTHER -> t
Lower(s) == [i \in 1..Len(s) |-> LowerTok(s[i])]

\* ------------------------------------------------------------------------
\* Link Extractor
\* ------------------------------------------------------------------------

\* StripInlineCode removing the backticks and keeping what they enclose.
StripInlineCodeTicks(line) == RemoveAll(line, {BT})

\* _strip_inline_code: re.sub(r"`[^`]*`", "", line).  Leftmost first: a
\* backtick and everything up to the next backtick are removed; a backtick
\* with no later partner stays.
RECURSIVE StripInlineCode(_)
StripInlineCode(line) ==
  LET i == Find(line, BT, 1)
      j == IF i = 0 THEN 0 ELSE Find(line, BT, i + 1)
  IN IF i = 0 \/ j = 0 THEN line
     ELSE Take(line, i - 1) \o StripInlineCode(Drop(line, j))

\* One attempt of _LINK_PATTERN = !?\[[^\]]*\]\(([^)]+)\) anchored at
\* position i of s.  The result is <<k, group>>, k the position of the closing
\* parenthesis and group the text of group 1, or <<0, <<>> >> when the pattern
\* does not match there.
LinkMatchAt(s, i) ==
  LET p == IF s[i] = "!" THEN i + 1 ELSE i
      j == IF p <= Len(s) /\ s[p] = "[" THEN Find(s, "]", p + 1) ELSE 0
      k == IF j > 0 /\ j + 1 <= Len(s) /\ s[j + 1] = "(" THEN Find(s, ")", j + 2) ELSE 0
  IN IF k > j + 2 /\ j > 0 THEN <<k, SubSeq(s, j + 2, k - 1)>> ELSE <<0, <<>> >>

\* _LINK_PATTERN.finditer(scan_line): the group-1 texts of the successive
\* non-overlapping leftmost matches, searching from position i.
RECURSIVE FindLinks(_, _)
FindLinks(s, i) ==
  IF i > Len(s) THEN <<>>
  ELSE LET m == LinkMatchAt(s, i)
       IN IF m[1] = 0 THEN FindLinks(s, i + 1)
          ELSE <<m[2]>> \o FindLinks(s, m[1] + 1)

\* The destination taken from one match (lines 216-221).  dest.split()[0]
\* raises IndexError when the stripped group is empty: the result carries
\* ok = FALSE then.
MatchDest(group) ==
  LET dest == Strip(group)
      gt == Find(dest, ">", 1)
      sp == IF \E i \in 1..Len(dest) : IsSpace(dest[i])
            THEN CHOOSE i \in 1..Len(dest) :
                   IsSpace(dest[i]) /\ \A j \in 1..(i - 1) : ~IsSpace(dest[j])
            ELSE 0
  IN IF StartsWith(dest, <<"<">>) /\ gt > 0
     THEN [ok |-> TRUE, dest |-> Strip(SubSeq(dest, 2, gt - 1))]
     ELSE IF dest = <<>> THEN [ok |-> FALSE, dest |-> <<>>]
     ELSE [ok |-> TRUE, dest |-> IF sp = 0 THEN dest ELSE Take(dest, sp - 1)]

\* A fence delimiter line (lines 207-208 and 245-246).
IsFenceLine(line) ==
  LET stripped == LStrip(line)
  IN StartsWith(stripped, <<BT, BT, BT>>) \/ StartsWith(stripped, <<"~", "~", "~">>)

\* LinksOf numbering the lines from 0.
LinksOfZeroBased(dests, line_num) ==
  [ok |-> \A g \in 1..Len(dests) : dests[g].ok,
   links |-> [g \in 1..Len(dests) |-> <<dests[g].dest, line_num - 1>>]]

\* Lines 216-223 for the matches of one line, given the destination taken
\* from each: [ok, links]; ok = FALSE when one of them raised IndexError.
LinksOf(dests, line_num) ==
  [ok |-> \A g \in 1..Len(dests) : dests[g].ok,
   links |-> [g \in 1..Len(dests) |-> <<dests[g].dest, line_num>>]]

\* group 1 of every match, turned into its destination.
RECURSIVE MatchDests(_)
MatchDests(groups) ==
  IF groups = <<>> THEN <<>> ELSE <<MatchDest(Head(groups))>> \o MatchDests(Tail(groups))

\* The links of one line outside a fence (lines 214-223).
LineLinks(line, line_num) ==
  LinksOf(MatchDests(FindLinks(StripInlineCode(line), 1)), line_num)

\* Lines 207-223 for line number n: the fence state after the line and the
\* links found on it.
LineStep(lines, n, in_fence) ==
  IF IsFenceLine(lines[n]) THEN [in_fence |-> ~in_fence, ok |-> TRUE, links |-> <<>>]
  ELSE IF in_fence THEN [in_fence |-> in_fence, ok |-> TRUE, links |-> <<>>]
  ELSE [in_fence |-> in_fence] @@ LineLinks(lines[n], n)

\* The loop of _extract_markdown_links from line number n on, given the
\* outcome done of the lines before it.  Result: [ok, links]; ok = FALSE when
\* a match raised IndexError (no list is returned then).
Extend(done, step) ==
  [in_fence |-> step.in_fence, ok |-> step.ok,
   links |-> IF step.ok THEN done.links \o step.links ELSE <<>>]
RECURSIVE ExtractFrom(_, _, _)
ExtractFrom(lines, n, done) ==
  IF n > Len(lines) \/ ~done.ok THEN [ok |-> done.ok, links |-> done.links]
  ELSE ExtractFrom(lines, n + 1, Extend(done, LineStep(lines, n, done.in_fence)))

\* _extract_markdown_links(markdown_text)
ExtractMarkdownLinks(lines) ==
  ExtractFrom(lines, 1, [in_fence |-> FALSE, ok |-> TRUE, links |-> <<>>])

\* ------------------------------------------------------------------------
\* Heading Slugger
\* ------------------------------------------------------------------------

\* The one-character tokens that are not word characters (\w is a letter,
\* a digit or "_"); every other token is a run of letters and digits.
NonWord ==
  {" ", "\t", "#", "[", "]", "(", ")", BT, DQ, NUL, "~", ">", "<", "!", "/", ":",
   "-", "=", ".", "&", ",", "*", "?", "%", ";", "+", "'", "@", "{", "}", "|"}
IsWord(t) == t \notin NonWord

\* re.sub(r"!\[([^\]]*)\]\([^)]+\)", r"\1", text) when image, and
\* re.sub(r"\[([^\]]+)\]\([^)]+\)", r"\1", text) otherwise (lines 291-292),
\* scanning from position i.
RECURSIVE SubLinkText(_, _, _)
SubLinkText(s, i, image) ==
  IF i > Len(s) THEN <<>>
  ELSE LET p == IF image THEN i + 1 ELSE i
           open == IF image THEN s[i] = "!" /\ p <= Len(s) /\ s[p] = "[" ELSE s[i] = "["
           j == IF open THEN Find(s, "]", p + 1) ELSE 0
           k == IF j > 0 /\ (image \/ j > p + 1) /\ j + 1 <= Len(s) /\ s[j + 1] = "("
                THEN Find(s, ")", j + 2) ELSE 0
       IN IF j > 0 /\ k > j + 2
          THEN SubSeq(s, p + 1, j - 1) \o SubLinkText(s, k + 1, image)
          ELSE <<s[i]>> \o SubLinkText(s, i + 1, image)

\* re.sub(r"`([^`]*)`", r"\1", text) (line 294): paired backticks go, their
\* content stays.
RECURSIVE SubCodeTicks(_)
SubCodeTicks(s) ==
  LET i == Find(s, BT, 1)
      j == IF i = 0 THEN 0 ELSE Find(s, BT, i + 1)
  IN IF i = 0 \/ j = 0 THEN s
     ELSE Take(s, i - 1) \o SubSeq(s, i + 1, j - 1) \o SubCodeTicks(Drop(s, j))

\* re.sub(r"<[^>]+>", "", text) (line 299), scanning from position i.
RECURSIVE SubHtmlTags(_, _)
SubHtmlTags(s, i) ==
  IF i > Len(s) THEN <<>>
  ELSE LET k == IF s[i] = "<" THEN Find(s, ">", i + 1) ELSE 0
       IN IF k > i + 1 THEN SubHtmlTags(s, k + 1)
          ELSE <<s[i]>> \o SubHtmlTags(s, i + 1)

\* _strip_markdown_formatting.  The four replace calls of lines 296-297
\* together delete every "*" and every "_".
StripMarkdownFormatting(text) ==
  LET t1 == SubLinkText(text, 1, TRUE)
      t2 == SubLinkText(t1, 1, FALSE)
      t3 == SubCodeTicks(t2)
      t4 == RemoveAll(t3, {"*", "_"})
  IN SubHtmlTags(t4, 1)

\* html.unescape for the named references amp, lt and gt, each accepted with
\* or without its closing ";".
EntityChar(name) ==
  CASE name = "amp" -> "&"
    [] name = "lt" -> "<"
    [] name = "gt" -> ">"
    [] OTHER -> ""
RECURSIVE HtmlUnescape(_)
HtmlUnescape(s) ==
  IF s = <<>> THEN <<>>
  ELSE IF Head(s) = "&" /\ Len(s) >= 2 /\ EntityChar(s[2]) # ""
       THEN <<EntityChar(s[2])>>
            \o HtmlUnescape(Drop(s, IF Len(s) >= 3 /\ s[3] = ";" THEN 3 ELSE 2))
       ELSE <<Head(s)>> \o HtmlUnescape(Tail(s))

\* re.sub(r"\s+", "-", text) (line 285)
RECURSIVE SpacesToHyphen(_)
SpacesToHyphen(s) ==
  IF s = <<>> THEN <<>>
  ELSE IF IsSpace(Head(s)) THEN <<"-">> \o SpacesToHyphen(LStrip(s))
  ELSE <<Head(s)>> \o SpacesToHyphen(Tail(s))

\* KeepWordAndHyphen collapsing adjacent hyphens into one.
RECURSIVE KeepWordAndHyphenCollapsing(_)
KeepWordAndHyphenCollapsing(s) ==
  IF s = <<>> THEN <<>>
  ELSE IF Head(s) = "-" /\ Len(s) >= 2 /\ ~IsWord(s[2])
  THEN KeepWordAndHyphenCollapsing(<<"-">> \o Drop(s, 2))
  ELSE IF IsWord(Head(s)) \/ Head(s) = "-"
  THEN <<Head(s)>> \o KeepWordAndHyphenCollapsing(Tail(s))
  ELSE KeepWordAndHyphenCollapsing(Tail(s))

\* re.sub(r"[^\w-]", "", text) (line 286)
RECURSIVE KeepWordAndHyphen(_)
KeepWordAndHyphen(s) ==
  IF s = <<>> THEN <<>>
  ELSE IF IsWord(Head(s)) \/ Head(s) = "-" THEN <<Head(s)>> \o KeepWordAndHyphen(Tail(s))
  ELSE KeepWordAndHyphen(Tail(s))

\* _github_heading_slug
GithubHeadingSlug(heading_text) ==
  LET t1 == Strip(heading_text)
      t2 == StripMarkdownFormatting(t1)
      t3 == HtmlUnescape(t2)
      t4 == Lower(Strip(t3))
      t5 == SpacesToHyphen(t4)
      t6 == KeepWordAndHyphen(t5)
  IN StripChar(t6, "-")

\* ------------------------------------------------------------------------
\* Anchor Index
\* ------------------------------------------------------------------------

\* _strip_blockquote_prefix
RECURSIVE DropQuoteMarks(_)
DropQuoteMarks(out) ==
  IF StartsWith(out, <<">">>) THEN DropQuoteMarks(LStrip(Tail(out))) ELSE out
StripBlockquotePrefix(line) == DropQuoteMarks(LStrip(line))

\* str(count) inside f"{base}-{count}": the decimal digits of n, one token
\* per digit.
DigitTok(d) ==
  CASE d = 0 -> "0" [] d = 1 -> "1" [] d = 2 -> "2" [] d = 3 -> "3" [] d = 4 -> "4"
    [] d = 5 -> "5" [] d = 6 -> "6" [] d = 7 -> "7" [] d = 8 -> "8" [] OTHER -> "9"
RECURSIVE IntToStr(_)
IntToStr(n) == IF n < 10 THEN <<DigitTok(n)>> ELSE IntToStr(n \div 10) \o <<DigitTok(n % 10)>>

\* The number of leading "#" of s.
RECURSIVE LeadingHashes(_)
LeadingHashes(s) == IF s # <<>> /\ Head(s) = "#" THEN 1 + LeadingHashes(Tail(s)) ELSE 0

\* AtxHeading with any number of "#" (#+ instead of #{1,6}).
AtxHeadingAnyLevel(normalized) ==
  LET h == LeadingHashes(normalized)
      rest == Drop(normalized, h)
  IN IF h >= 1 /\ rest # <<>> /\ IsSpace(Head(rest)) THEN RStrip(LStrip(rest))
     ELSE <<>>

\* re.match(r"^(#{1,6})\s+(.+?)\s*$", normalized) on a stripped line:
\* group 2 when the line matches, <<>> when it does not (group 2 is never
\* empty on a match).
AtxHeading(normalized) ==
  LET h == LeadingHashes(normalized)
      rest == Drop(normalized, h)
  IN IF h >= 1 /\ h <= 6 /\ rest # <<>> /\ IsSpace(Head(rest)) THEN RStrip(LStrip(rest))
     ELSE <<>>

\* re.sub(r"\s+#+\s*$", "", heading).strip() (line 259): a closing run of "#"
\* goes together with the whitespace before it, when there is whitespace
\* before it.
StripClosingHashes(heading) ==
  LET t == RStrip(heading)
      body == RStripChar(t, "#")
  IN IF Len(body) < Len(t) /\ body # <<>> /\ IsSpace(body[Len(body)])
     THEN Strip(body)
     ELSE Strip(heading)

\* RegisterSlug numbering the repetitions from 2: the second heading of a
\* base slug gets base-2.
RegisterSlugFromTwo(st, base) ==
  LET count == IF base \in DOMAIN st.counts THEN st.counts[base] ELSE 0
  IN [counts |-> [b \in DOMAIN st.counts \cup {base} |->
                    IF b = base THEN count + 1 ELSE st.counts[b]],
      anchors |-> st.anchors \cup
                    {<<"#">> \o (IF count = 0 THEN base
                                 ELSE base \o <<"-">> \o IntToStr(count + 1))}]

\* Lines 237-240 of add_heading_anchor for a non-empty base slug, on the loop
\* state st = [counts, anchors]: counts is slug_counts (a function on the
\* base slugs met so far), anchors the set.
RegisterSlug(st, base) ==
  LET count == IF base \in DOMAIN st.counts THEN st.counts[base] ELSE 0
  IN [counts |-> [b \in DOMAIN st.counts \cup {base} |->
                    IF b = base THEN count + 1 ELSE st.counts[b]],
      anchors |-> st.anchors \cup
                    {<<"#">> \o (IF count = 0 THEN base
                                 ELSE base \o <<"-">> \o IntToStr(count))}]

\* AddSlug without the test of line 235: an empty slug is registered like
\* any other.
AddSlugEmptyToo(st, base) == RegisterSlug(st, base)

\* add_heading_anchor given the slug of the heading text.
AddSlug(st, base) == IF base = <<>> THEN st ELSE RegisterSlug(st, base)

\* add_heading_anchor
AddHeadingAnchor(st, heading_text) == AddSlug(st, GithubHeadingSlug(heading_text))

\* A setext underline (lines 266-271): non-empty and made of "=" only, or of
\* "-" only.
IsUnderline(line) ==
  LET underline == Strip(StripBlockquotePrefix(line))
  IN /\ underline # <<>>
     /\ \/ \A k \in 1..Len(underline) : underline[k] = "="
        \/ \A k \in 1..Len(underline) : underline[k] = "-"

\* Lines 254-276 for a line outside a fence, given the line stripped of its
\* block-quote prefix: the next index and loop state.
HeadingStep(lines, i, st, normalized) ==
  LET atx == AtxHeading(normalized)
      setext == i + 1 <= Len(lines) /\ IsUnderline(lines[i + 1])
  IN [i |-> IF atx = <<>> /\ setext THEN i + 2 ELSE i + 1,
      st |-> IF atx = <<>> /\ ~setext THEN st
             ELSE AddHeadingAnchor(st, IF atx # <<>> THEN StripClosingHashes(atx)
                                       ELSE normalized)]

\* One iteration of the while loop of _extract_anchors at index i (1-based):
\* the next index, fence state and loop state.
AnchorStep(lines, i, in_fence, st) ==
  IF IsFenceLine(lines[i]) THEN [i |-> i + 1, in_fence |-> ~in_fence, st |-> st]
  ELSE IF in_fence THEN [i |-> i + 1, in_fence |-> in_fence, st |-> st]
  ELSE [in_fence |-> in_fence] @@
       HeadingStep(lines, i, st, Strip(StripBlockquotePrefix(lines[i])))

\* The while loop of _extract_anchors from the loop position at = [i,
\* in_fence, st] on.
RECURSIVE AnchorsFrom(_, _)
AnchorsFrom(lines, at) ==
  IF at.i > Len(lines) THEN at.st.anchors
  ELSE AnchorsFrom(lines, AnchorStep(lines, at.i, at.in_fence, at.st))

\* _extract_anchors(markdown_text)
ExtractAnchors(lines) ==
  AnchorsFrom(lines, [i |-> 1, in_fence |-> FALSE,
                      st |-> [counts |-> << >>, anchors |-> {}]])

\* ------------------------------------------------------------------------
\* Destination parsing (urllib.parse.urlsplit and unquote, as called by
\* _validate_link)
\* ------------------------------------------------------------------------

\* Word tokens of the modelled texts that begin with a digit; every other
\* word token begins with an ASCII letter.
DigitWords == {"0", "1", "2", "3", "4", "5", "6", "7", "8", "9", "00", "20", "23", "2F", "2E"}

\* The characters urlsplit strips on the left (C0 controls and space) and the
\* ones it deletes everywhere (tab, CR, LF), among the modelled tokens.
RECURSIVE LStripC0(_)
LStripC0(s) ==
  IF s # <<>> /\ Head(s) \in {" ", "\t", NUL} THEN LStripC0(Tail(s)) ELSE s

\* _splitnetloc(url, 2): the 1-based position of the first of "/", "?", "#"
\* after the leading "//", or Len(url) + 1.
NetlocEnd(url) ==
  IF \E i \in 3..Len(url) : url[i] \in {"/", "?", "#"}
  THEN CHOOSE i \in 3..Len(url) :
         url[i] \in {"/", "?", "#"} /\ \A j \in 3..(i - 1) : url[j] \notin {"/", "?", "#"}
  ELSE Len(url) + 1

\* The bracketed hosts _check_bracketed_host accepts, among the modelled
\* texts: the IPv6 loopback address.
ValidBracketedHosts == {<<":", ":", "1">>}

\* Lines of urlsplit that split the scheme off: [scheme, rest].  i is the
\* position of the first ":" (0 when there is none).
SchemeAt(url, i) ==
  IF /\ i > 1
     /\ IsWord(url[1]) /\ url[1] \notin DigitWords /\ url[1] # "_"
     /\ \A j \in 1..(i - 1) :
          (IsWord(url[j]) /\ url[j] # "_") \/ url[j] \in {"+", "-", "."}
  THEN [scheme |-> Lower(Take(url, i - 1)), rest |-> Drop(url, i)]
  ELSE [scheme |-> <<>>, rest |-> url]
SplitScheme(url) == SchemeAt(url, Find(url, ":", 1))

\* The netloc after a leading "//": [netloc, rest].
SplitNetloc(url) ==
  IF StartsWith(url, <<"/", "/">>)
  THEN [netloc |-> SubSeq(url, 3, NetlocEnd(url) - 1), rest |-> Drop(url, NetlocEnd(url) - 1)]
  ELSE [netloc |-> <<>>, rest |-> url]

\* The netlocs for which urlsplit raises ValueError: one bracket without the
\* other, or a bracketed host that is no IP address.
BadNetloc(netloc) ==
  LET lb == Find(netloc, "[", 1)
      rb == Find(netloc, "]", 1)
  IN \/ (lb > 0) # (rb > 0)
     \/ /\ lb > 0
        /\ rb > 0
        /\ Take(Drop(netloc, lb), Find(Drop(netloc, lb), "]", 1) - 1) \notin ValidBracketedHosts

\* url.split("#", 1) and url.split("?", 1): [rest, part]
SplitAt(url, c) ==
  IF Find(url, c, 1) > 0
  THEN [rest |-> Take(url, Find(url, c, 1) - 1), part |-> Drop(url, Find(url, c, 1))]
  ELSE [rest |-> url, part |-> <<>>]

\* urlsplit(url): [ok, scheme, netloc, path, query, fragment]; ok = FALSE when
\* urlsplit raises ValueError ("Invalid IPv6 URL" or a bad bracketed host).
\* The four operators below are its successive stages.
UrlQuery(scheme, netloc, fragment, q) ==
  [ok |-> ~BadNetloc(netloc), scheme |-> scheme, netloc |-> netloc, path |-> q.rest,
   query |-> q.part, fragment |-> fragment]
UrlFragment(scheme, netloc, f) == UrlQuery(scheme, netloc, f.part, SplitAt(f.rest, "?"))
UrlNetloc(scheme, n) == UrlFragment(scheme, n.netloc, SplitAt(n.rest, "#"))
UrlScheme(s) == UrlNetloc(s.scheme, SplitNetloc(s.rest))
UrlSplit(url) == UrlScheme(SplitScheme(RemoveAll(LStripC0(url), {"\t"})))

\* unquote: percent-decoding of the escapes that occur in the modelled texts
\* ("%" followed by a two-digit word token).
PercentChar(hex) ==
  CASE hex = "20" -> " "
    [] hex = "00" -> NUL
    [] hex = "23" -> "#"
    [] hex = "2F" -> "/"
    [] hex = "2E" -> "."
    [] OTHER -> ""
RECURSIVE Unquote(_)
Unquote(s) ==
  IF s = <<>> THEN <<>>
  ELSE IF Head(s) = "%" /\ Len(s) >= 2 /\ PercentChar(s[2]) # ""
       THEN <<PercentChar(s[2])>> \o Unquote(Drop(s, 2))
       ELSE <<Head(s)>> \o Unquote(Tail(s))

\* ------------------------------------------------------------------------
\* Paths
\* ------------------------------------------------------------------------

\* self.repo_root: the absolute path /repo.
RepoRoot == << <<"repo">> >>

\* The value None of a `str | None` and of a `Path | None` result.
NoneStr == <<"<None>">>
NonePath == << <<"<None>">> >>

\* PurePosixPath(s): [absolute, parts], parts being the segments of s that are
\* neither empty nor ".".
PosixParts(s) ==
  [absolute |-> StartsWith(s, <<"/">>),
   parts |-> SelectSeq(SplitOn(s, "/"), LAMBDA seg : seg # <<>> /\ seg # <<".">>)]

\* Path.resolve(strict=False) without symbolic links: base followed by the
\* segments parts, each ".." removing the segment before it (none at "/").
RECURSIVE Resolve(_, _)
Resolve(base, parts) ==
  IF parts = <<>> THEN base
  ELSE IF Head(parts) = <<".", ".">>
       THEN Resolve(Take(base, Len(base) - 1), Tail(parts))
       ELSE Resolve(Append(base, Head(parts)), Tail(parts))

\* Path.is_relative_to(self.repo_root)
IsRelativeToRoot(path) == StartsWith(path, RepoRoot)

\* _rel_path(path) for a resolved path: its root-relative posix string ("."
\* for the root itself), or None.
RelPath(path) ==
  IF ~IsRelativeToRoot(path) THEN NoneStr
  ELSE IF path = RepoRoot THEN <<".">>
  ELSE Join(Drop(path, Len(RepoRoot)), "/")

\* self.repo_root / rel for a root-relative posix string rel.
RootJoin(rel) == RepoRoot \o PosixParts(rel).parts

\* Path.parent
Parent(path) == Take(path, Len(path) - 1)

\* Path.suffix of the final segment: from its last "." on, when that is
\* neither its first nor its last character.
Suffix(path) ==
  LET name == IF path = <<>> THEN <<>> ELSE path[Len(path)]
      dots == {i \in 1..Len(name) : name[i] = "."}
      i == IF dots = {} THEN 0 ELSE CHOOSE d \in dots : \A d2 \in dots : d2 <= d
  IN IF i > 1 /\ i < Len(name) THEN Drop(name, i - 1) ELSE <<>>

\* Candidate resolving every link path from the directory of the source.
CandidateFromSource(source_file, posix) == Resolve(Parent(source_file), posix.parts)

\* Lines 340-343 of _resolve_link_path: the candidate, resolved from the
\* root for an absolute link path and from the directory of the source
\* otherwise.
Candidate(source_file, posix) ==
  IF posix.absolute THEN Resolve(RepoRoot, posix.parts)
  ELSE Resolve(Parent(source_file), posix.parts)

\* ContainedCandidate without the containment test.
ContainedCandidateUnchecked(candidate) == [ok |-> TRUE, path |-> candidate]

\* Lines 345-347: None (NonePath) for a candidate that is not under the root.
ContainedCandidate(candidate) ==
  IF ~IsRelativeToRoot(candidate) THEN [ok |-> TRUE, path |-> NonePath]
  ELSE [ok |-> TRUE, path |-> candidate]

\* ResolveStripped testing the containment after every segment: a path that
\* leaves the root on the way is None even when it comes back.
RECURSIVE EverOutside(_, _)
EverOutside(base, parts) ==
  \/ ~IsRelativeToRoot(base)
  \/ parts # <<>> /\ EverOutside(Resolve(base, <<Head(parts)>>), Tail(parts))
ResolveStrippedStepwise(source_file, link_path) ==
  IF Contains(link_path, <<NUL>>) THEN [ok |-> FALSE, path |-> NonePath]
  ELSE IF EverOutside(IF PosixParts(link_path).absolute THEN RepoRoot ELSE Parent(source_file),
                      PosixParts(link_path).parts)
  THEN [ok |-> TRUE, path |-> NonePath]
  ELSE ContainedCandidate(Candidate(source_file, PosixParts(link_path)))

\* Lines 334-347 on the stripped link path; Path.resolve raises ValueError
\* on an embedded null byte (ok = FALSE).
ResolveStripped(source_file, link_path) ==
  IF Contains(link_path, <<NUL>>) THEN [ok |-> FALSE, path |-> NonePath]
  ELSE ContainedCandidate(Candidate(source_file, PosixParts(link_path)))

\* _resolve_link_path(source_file, link_path): [ok, path]
ResolveLinkPath(source_file, link_path) == ResolveStripped(source_file, Strip(link_path))

\* ------------------------------------------------------------------------
\* The modelled repository: paths, document texts, batches
\* ------------------------------------------------------------------------

\* Bounds of the model: the longest document list passed to validate_files
\* and the number of validate_files calls in one behaviour.
MaxBatch == 2
MaxRuns == 2

\* Root-relative paths of the files of the modelled repository.
ReadmeMd == <<"README", ".", "md">>
DocsBMd == <<"docs", "/", "b", ".", "md">>
DocsReadmeMd == <<"docs", "/", "README", ".", "md">>
DocsSubCMd == <<"docs", "/", "sub", "/", "c", ".", "md">>
VmdXPng == <<"v", ".", "md", "/", "x", ".", "png">>
Universe == {ReadmeMd, DocsBMd, DocsReadmeMd, DocsSubCMd, VmdXPng}

\* A document outside the root (/etc/o.md).
OutsideDoc == << <<"etc">>, <<"o", ".", "md">> >>

\* Markdown source text [label](dest) and a line of several links separated
\* by single spaces.
Link(label, dest) == <<"[", label, "]", "(">> \o dest \o <<")">>
RECURSIVE LinkLine(_)
LinkLine(dests) ==
  IF dests = <<>> THEN <<>>
  ELSE IF Len(dests) = 1 THEN Link("x", dests[1])
  ELSE Link("x", dests[1]) \o <<" ">> \o LinkLine(Tail(dests))

\* Text of README.md: heading "Intro"; same-document anchors (one present,
\* one absent and repeated), links to docs/b.md, to the directory docs, out
\* of the root, and to docs\sub (a backslash, not a separator on POSIX).
ReadmeText ==
  << <<"#", " ", "Intro">>,
     LinkLine(<< <<"#", "intro">>, <<"#", "setup">>, <<"#", "setup">> >>),
     LinkLine(<< <<"docs", "/", "b", ".", "md", "#", "setup">>,
                 <<"docs", "/", "b", ".", "md", "#", "intro">>,
                 <<"docs", "/", "#", "guide">> >>),
     LinkLine(<< <<"docs", "#", "intro">>,
                 <<".", ".", "/", "x", ".", "md", "#", "intro">>,
                 <<"docs", "\\", "sub", "#", "f">> >>) >>

\* README.md with one more line after the first links, whose destination
\* //[x makes urlsplit raise ValueError.
ReadmeTextBadUrl ==
  Take(ReadmeText, 2) \o << LinkLine(<< <<"/", "/", "[", "x">> >>) >> \o Drop(ReadmeText, 2)

\* Text of docs/b.md: heading "Setup"; a same-document anchor that only
\* README.md has, a link up to README.md, to the root itself, to a tracked
\* non-markdown file with a fragment, and to a path no file has.
DocsBText ==
  << <<"#", " ", "Setup">>,
     LinkLine(<< <<"#", "intro">>,
                 <<".", ".", "/", "README", ".", "md", "#", "intro">> >>),
     LinkLine(<< <<".", ".">>,
                 <<"/", "v", ".", "md", "/", "x", ".", "png", "#", "f">>,
                 <<"v", ".", "md">> >>) >>

\* docs/b.md with a last line whose destination is blank: [x]( ).
DocsBTextBlankDest == DocsBText \o << LinkLine(<< <<" ">> >>) >>

\* Text of docs/README.md: heading "Guide" (level 2).
DocsReadmeText == << <<"#", "#", " ", "Guide">> >>

\* The states of a file on disk: absent, present with a text, or present
\* with bytes that are not valid UTF-8.
Absent == [present |-> FALSE, utf8 |-> FALSE, lines |-> <<>>]
File(lines) == [present |-> TRUE, utf8 |-> TRUE, lines |-> lines]
Undecodable == [present |-> TRUE, utf8 |-> FALSE, lines |-> <<>>]

\* The disks the model starts from.  README.md and docs/b.md each hold one
\* of their texts, or bytes that are not UTF-8, or are absent; the other
\* files are present (the content of c.md and x.png is never read).
Disks ==
  {[p \in Universe |->
      CASE p = ReadmeMd -> r
        [] p = DocsBMd -> b
        [] p = DocsReadmeMd -> File(DocsReadmeText)
        [] OTHER -> File(<<>>)] :
     r \in {File(ReadmeText), File(ReadmeTextBadUrl), Absent, Undecodable},
     b \in {File(DocsBText), File(DocsBTextBlankDest), Absent, Undecodable}}

\* The documents a caller may pass to validate_files, and the document lists
\* (up to MaxBatch documents, repetitions allowed).
SourceDocs == {RepoRoot \o << ReadmeMd >>, RepoRoot \o << <<"docs">>, <<"b", ".", "md">> >>, OutsideDoc}
Batches == UNION {[1..n -> SourceDocs] : n \in 0..MaxBatch}

\* ------------------------------------------------------------------------
\* State
\* ------------------------------------------------------------------------

VARIABLES
  git_tracked,     \* what `git ls-files` lists (git_ls_files)
  disk,            \* the files on disk: path -> Absent or File(lines)
  markdown_files,  \* the document list the caller validates
  tracked_files,   \* self.tracked_files
  tracked_dirs,    \* self.tracked_dirs
  anchors_cache,   \* self._anchors_cache: a function on the cached paths
  pc,              \* "idle", "file" (validate_files loop), "links" (validate_file loop)
  file_idx,        \* position of validate_files in markdown_files
  errors,          \* validate_files: errors
  rel_source,      \* validate_file: rel_source
  links,           \* validate_file: the extracted (url, line_num) list
  link_idx,        \* position of validate_file in links
  file_errors,     \* validate_file: errors
  started_warm,    \* whether the running call found the anchor cache non-empty
  returned         \* outcome of each finished validate_files call, in order

vars ==
  <<git_tracked, disk, markdown_files, tracked_files, tracked_dirs, anchors_cache, pc,
    file_idx, errors, rel_source, links, link_idx, file_errors, started_warm, returned>>

\* ------------------------------------------------------------------------
\* File Set Index
\* ------------------------------------------------------------------------

\* BuildTrackedDirs without the break at ".": the root is a directory too.
BuildTrackedDirsWithRoot(files) ==
  UNION {{Join(Take(PosixParts(rel).parts, n), "/") :
            n \in 1..(Len(PosixParts(rel).parts) - 1)} \cup {<<".">>} : rel \in files}

\* _build_tracked_dirs: str(parent) for every parent of a tracked path, up to
\* but not including ".".
BuildTrackedDirs(files) ==
  UNION {{Join(Take(PosixParts(rel).parts, n), "/") :
            n \in 1..(Len(PosixParts(rel).parts) - 1)} : rel \in files}

\* _is_tracked_dir: rel_path.strip("/").replace("\\", "/") in tracked_dirs
IsTrackedDir(rel_path) ==
  LET stripped == StripChar(rel_path, "/")
      replaced == [i \in 1..Len(stripped) |->
                     IF stripped[i] = "\\" THEN "/" ELSE stripped[i]]
  IN replaced \in tracked_dirs

\* _tracked_path_exists
TrackedPathExists(rel_path) ==
  IF rel_path \in tracked_files THEN TRUE ELSE IsTrackedDir(rel_path)

\* ------------------------------------------------------------------------
\* Anchor validation and the Link Resolver
\* ------------------------------------------------------------------------

\* MarkdownLinkError(source_file, source_line, link, message).  The message
\* is kept as the tuple of its fixed text and the values formatted into it.
MarkdownLinkError(source_file, source_line, link, message) ==
  [source_file |-> source_file, source_line |-> source_line, link |-> link,
   message |-> message]

\* The fixed texts of the three link messages and of the read failure.
MsgAnchor == "Anchor not found in"
MsgTarget == "Target not found in git-tracked paths"
MsgOutside == "Link resolves outside repository"
MsgUnreadable == "Unable to read file"

\* Path.read_text(encoding="utf-8") on the modelled disk: [raised, lines];
\* raised is "" when the text is returned, "OSError" when there is no such
\* file, "UnicodeDecodeError" when the bytes are not UTF-8.
ReadRel(rel) ==
  IF rel \notin DOMAIN disk \/ ~disk[rel].present
  THEN [raised |-> "OSError", lines |-> <<>>]
  ELSE IF ~disk[rel].utf8 THEN [raised |-> "UnicodeDecodeError", lines |-> <<>>]
  ELSE [raised |-> "", lines |-> disk[rel].lines]
ReadText(path) == ReadRel(RelPath(path))

\* Lines 193-198: the anchors of a file's content, the empty set when the
\* read raised OSError.
AnchorsOfContent(content) ==
  IF content.raised = "" THEN ExtractAnchors(content.lines) ELSE {}

\* StoreAnchors caching an empty set instead of the extracted anchors.
StoreAnchorsEmpty(rel, cache, anchors) ==
  [ok |-> TRUE, anchors |-> anchors,
   cache |-> [r \in DOMAIN cache \cup {rel} |-> IF r = rel THEN {} ELSE cache[r]]]

\* Lines 195 and 199-200: the anchors are stored under rel and returned.
StoreAnchors(rel, cache, anchors) ==
  [ok |-> TRUE, anchors |-> anchors,
   cache |-> [r \in DOMAIN cache \cup {rel} |-> IF r = rel THEN anchors ELSE cache[r]]]

\* Lines 191-200, given what read_text did: only OSError is caught, a
\* UnicodeDecodeError leaves _anchors_for_file (ok = FALSE).
AnchorsRead(rel, cache, content) ==
  IF content.raised = "UnicodeDecodeError"
  THEN [ok |-> FALSE, anchors |-> {}, cache |-> cache]
  ELSE StoreAnchors(rel, cache, AnchorsOfContent(content))

\* AnchorsForRel testing the stored set for truth instead of "is not None":
\* a stored empty set is computed again.
AnchorsForRelTruthy(markdown_file, rel, cache) ==
  IF rel = NoneStr THEN [ok |-> TRUE, anchors |-> {}, cache |-> cache]
  ELSE IF rel \in DOMAIN cache /\ cache[rel] # {}
  THEN [ok |-> TRUE, anchors |-> cache[rel], cache |-> cache]
  ELSE AnchorsRead(rel, cache, ReadText(markdown_file))

\* AnchorsForRel reading the document at every call: a stored set is
\* replaced by the anchors of the text on disk.
AnchorsForRelReread(markdown_file, rel, cache) ==
  IF rel = NoneStr THEN [ok |-> TRUE, anchors |-> {}, cache |-> cache]
  ELSE AnchorsRead(rel, cache, ReadText(markdown_file))

\* _anchors_for_file with the cache given: [ok, anchors, cache], cache being
\* self._anchors_cache after the call.
AnchorsForRel(markdown_file, rel, cache) ==
  IF rel = NoneStr THEN [ok |-> TRUE, anchors |-> {}, cache |-> cache]
  ELSE IF rel \in DOMAIN cache THEN [ok |-> TRUE, anchors |-> cache[rel], cache |-> cache]
  ELSE AnchorsRead(rel, cache, ReadText(markdown_file))
AnchorsForFile(markdown_file, cache) ==
  AnchorsForRel(markdown_file, RelPath(markdown_file), cache)

\* A call of _validate_link: its arguments and the cache it finds.
LinkCall(rel_src, source_file, url, line_num, cache) ==
  [rel_source |-> rel_src, source_file |-> source_file, url |-> url,
   line_num |-> line_num, cache |-> cache]

\* The outcomes of _validate_link, [ok, raised, errors, cache]: no error, one
\* error, and ok = FALSE when the call raises (ValueError from urlsplit or
\* from Path.resolve, UnicodeDecodeError from read_text) instead of
\* returning.
NoError(c) == [ok |-> TRUE, raised |-> "", errors |-> <<>>, cache |-> c.cache]
OneError(c, message) ==
  [ok |-> TRUE, raised |-> "",
   errors |-> << MarkdownLinkError(c.rel_source, c.line_num, c.url, message) >>,
   cache |-> c.cache]
Raises(c, exception) ==
  [ok |-> FALSE, raised |-> exception, errors |-> <<>>, cache |-> c.cache]

\* Lines 170-181 of _validate_anchor, given what _anchors_for_file returned.
AnchorVerdict(c, target_file, anchor, found) ==
  IF ~found.ok THEN Raises(c, "UnicodeDecodeError")
  ELSE IF anchor \notin found.anchors
  THEN [ok |-> TRUE, raised |-> "",
        errors |-> << MarkdownLinkError(c.rel_source, c.line_num, c.url,
                                        <<MsgAnchor, anchor, RelPath(target_file)>>) >>,
        cache |-> found.cache]
  ELSE [ok |-> TRUE, raised |-> "", errors |-> <<>>, cache |-> found.cache]

\* _validate_anchor
ValidateAnchor(c, target_file, fragment) ==
  AnchorVerdict(c, target_file, <<"#">> \o fragment, AnchorsForFile(target_file, c.cache))

\* TargetForAnchor without the README.md redirection.
TargetForAnchorNoReadme(resolved_target, rel_target) == resolved_target

\* Lines 143-148: the target whose anchors are checked; a tracked directory
\* that is not a tracked file is replaced by its README.md when tracked.
TargetForAnchor(resolved_target, rel_target) ==
  IF /\ IsTrackedDir(rel_target)
     /\ rel_target \notin tracked_files
     /\ RStripChar(rel_target, "/") \o <<"/", "README", ".", "md">> \in tracked_files
  THEN RootJoin(RStripChar(rel_target, "/") \o <<"/", "README", ".", "md">>)
  ELSE resolved_target

\* ValidateFragment looking the fragment up in the source document instead
\* of the target.
ValidateFragmentInSource(c, fragment, target_for_anchor) ==
  IF fragment # <<>> /\ Lower(Suffix(target_for_anchor)) = <<".", "md">>
  THEN ValidateAnchor(c, c.source_file, fragment)
  ELSE NoError(c)

\* Lines 150-159 of _validate_link
ValidateFragment(c, fragment, target_for_anchor) ==
  IF fragment # <<>> /\ Lower(Suffix(target_for_anchor)) = <<".", "md">>
  THEN ValidateAnchor(c, target_for_anchor, fragment)
  ELSE NoError(c)

\* ValidateTarget going on to the anchor after 'target not found': a link
\* with a fragment to a missing target is charged twice.
ValidateTargetNoStop(c, fragment, raw_path, resolved_target, rel_target) ==
  IF (rel_target = NoneStr \/ ~TrackedPathExists(rel_target)) /\ fragment # <<>>
  THEN [ok |-> TRUE, raised |-> "",
        errors |-> << MarkdownLinkError(c.rel_source, c.line_num, c.url,
                                        <<MsgTarget, raw_path>>),
                      MarkdownLinkError(c.rel_source, c.line_num, c.url,
                                        <<MsgAnchor, <<"#">> \o fragment, rel_target>>) >>,
        cache |-> c.cache]
  ELSE IF rel_target = NoneStr \/ ~TrackedPathExists(rel_target)
  THEN OneError(c, <<MsgTarget, raw_path>>)
  ELSE ValidateFragment(c, fragment, TargetForAnchor(resolved_target, rel_target))

\* Lines 132-148 of _validate_link
ValidateTarget(c, fragment, raw_path, resolved_target, rel_target) ==
  IF rel_target = NoneStr \/ ~TrackedPathExists(rel_target)
  THEN OneError(c, <<MsgTarget, raw_path>>)
  ELSE ValidateFragment(c, fragment, TargetForAnchor(resolved_target, rel_target))

\* Lines 122-130 of _validate_link
ValidateResolved(c, fragment, raw_path, resolved) ==
  IF ~resolved.ok THEN Raises(c, "ValueError")
  ELSE IF resolved.path = NonePath THEN OneError(c, <<MsgOutside, raw_path>>)
  ELSE ValidateTarget(c, fragment, raw_path, resolved.path, RelPath(resolved.path))

\* ValidatePath without the same-document branch: a destination with no path
\* is taken to need no check.
ValidatePathNoSameDocument(c, fragment, raw_path) ==
  IF raw_path = <<>> THEN NoError(c)
  ELSE ValidateResolved(c, fragment, raw_path, ResolveLinkPath(c.source_file, raw_path))

\* Lines 107-121 of _validate_link
ValidatePath(c, fragment, raw_path) ==
  IF raw_path = <<>> /\ fragment # <<>> THEN ValidateAnchor(c, c.source_file, fragment)
  ELSE IF raw_path = <<>> THEN NoError(c)
  ELSE ValidateResolved(c, fragment, raw_path, ResolveLinkPath(c.source_file, raw_path))

\* ValidateParsed without the test of lines 101-102: a destination with a
\* scheme or a host is resolved like a relative one.
ValidateParsedNoExternal(c, parsed) ==
  IF ~parsed.ok THEN Raises(c, "ValueError")
  ELSE ValidatePath(c, Strip(Unquote(parsed.fragment)), Strip(Unquote(parsed.path)))

\* Lines 100-105 of _validate_link
ValidateParsed(c, parsed) ==
  IF ~parsed.ok THEN Raises(c, "ValueError")
  ELSE IF parsed.scheme # <<>> \/ parsed.netloc # <<>> THEN NoError(c)
  ELSE ValidatePath(c, Strip(Unquote(parsed.fragment)), Strip(Unquote(parsed.path)))

\* _validate_link: [ok, errors, cache]
ValidateLink(c) == ValidateParsed(c, UrlSplit(c.url))

\* _normalize_link_destination
NormalizeLinkDestination(dest0) ==
  LET dest == Strip(dest0)
  IN IF StartsWith(dest, <<"<">>) /\ EndsWith(dest, <<">">>)
     THEN Strip(SubSeq(dest, 2, Len(dest) - 1))
     ELSE dest

\* _should_ignore_link with the scheme prefixes only (lines 319-322).
ShouldIgnoreLinkSchemes(url) ==
  LET lowered == Lower(url)
  IN \/ url = <<"#">>
     \/ StartsWith(lowered, <<"mailto", ":">>)
     \/ StartsWith(lowered, <<"tel", ":">>)
     \/ StartsWith(lowered, <<"javascript", ":">>)

\* _should_ignore_link
ShouldIgnoreLink(url) ==
  LET lowered == Lower(url)
  IN \/ url = <<"#">>
     \/ StartsWith(lowered, <<"mailto", ":">>)
     \/ StartsWith(lowered, <<"tel", ":">>)
     \/ StartsWith(lowered, <<"javascript", ":">>)
     \/ Contains(url, <<"{", "{">>) \/ Contains(url, <<"}", "}">>)
     \/ Contains(url, <<"<">>) \/ Contains(url, <<">">>)
     \/ Contains(lowered, <<"example", ".", "com">>)
     \/ Contains(lowered, <<"/", "path", "/", "to", "/">>)
     \/ StartsWith(lowered, <<"path", "/", "to", "/">>)

\* ------------------------------------------------------------------------
\* Validator/Reporter: the state machine
\* ------------------------------------------------------------------------

\* The state after MarkdownLinkValidator(repo_root) in a repository whose
\* tracked set, disk and caller's document list are drawn from the modelled
\* ones.
Init ==
  /\ git_tracked \in SUBSET Universe
  /\ disk \in Disks
  /\ markdown_files \in Batches
  /\ tracked_files = git_tracked
  /\ tracked_dirs = BuildTrackedDirs(git_tracked)
  /\ anchors_cache = << >>
  /\ pc = "idle"
  /\ file_idx = 0
  /\ errors = <<>>
  /\ rel_source = NoneStr
  /\ links = <<>>
  /\ link_idx = 0
  /\ file_errors = <<>>
  /\ started_warm = FALSE
  /\ returned = <<>>

\* __init__ again: a fresh validator over the same repository (empty cache).
NewValidator ==
  /\ pc = "idle"
  /\ Len(returned) < MaxRuns
  /\ tracked_files' = git_tracked
  /\ tracked_dirs' = BuildTrackedDirs(git_tracked)
  /\ anchors_cache' = << >>
  /\ UNCHANGED <<git_tracked, disk, markdown_files, pc, file_idx, errors, rel_source,
                 links, link_idx, file_errors, started_warm, returned>>

\* validate_files is called (lines 36-37).
CallValidateFiles ==
  /\ pc = "idle"
  /\ Len(returned) < MaxRuns
  /\ pc' = "file"
  /\ file_idx' = 1
  /\ errors' = <<>>
  /\ started_warm' = (anchors_cache # << >>)
  /\ UNCHANGED <<git_tracked, disk, markdown_files, tracked_files, tracked_dirs,
                 anchors_cache, rel_source, links, link_idx, file_errors, returned>>

\* FinishFile putting the errors of the document in front of the earlier
\* ones.
FinishFilePrepend(found) ==
  /\ errors' = found \o errors
  /\ file_idx' = file_idx + 1
  /\ pc' = "file"
  /\ rel_source' = NoneStr
  /\ links' = <<>>
  /\ link_idx' = 0
  /\ file_errors' = <<>>
  /\ UNCHANGED returned

\* validate_file returns found: validate_files extends errors and moves on
\* (line 39).
FinishFile(found) ==
  /\ errors' = errors \o found
  /\ file_idx' = file_idx + 1
  /\ pc' = "file"
  /\ rel_source' = NoneStr
  /\ links' = <<>>
  /\ link_idx' = 0
  /\ file_errors' = <<>>
  /\ UNCHANGED returned

\* An exception leaves validate_file and validate_files: the call ends
\* without a list.
Raise(exception) ==
  /\ returned' = Append(returned, [ok |-> FALSE, errors |-> <<>>, raised |-> exception,
                                   warm |-> started_warm])
  /\ pc' = "idle"
  /\ file_idx' = 0
  /\ errors' = <<>>
  /\ rel_source' = NoneStr
  /\ links' = <<>>
  /\ link_idx' = 0
  /\ file_errors' = <<>>

\* Lines 59-60 of validate_file: the loop starts, or validate_file returns
\* when there is no link; the extraction may have raised IndexError.
StartLinks(rel, extracted) ==
  IF ~extracted.ok THEN Raise("IndexError")
  ELSE IF extracted.links = <<>> THEN FinishFile(<<>>)
  ELSE /\ pc' = "links"
       /\ rel_source' = rel
       /\ links' = extracted.links
       /\ link_idx' = 1
       /\ file_errors' = <<>>
       /\ UNCHANGED <<file_idx, errors, returned>>

\* Lines 47-60 of validate_file, given what read_text did: only OSError is
\* caught.
ReadFile(rel, content) ==
  IF content.raised = "OSError"
  THEN FinishFile(<< MarkdownLinkError(rel, 1, <<>>, <<MsgUnreadable, "OSError">>) >>)
  ELSE IF content.raised = "UnicodeDecodeError" THEN Raise("UnicodeDecodeError")
  ELSE StartLinks(rel, ExtractMarkdownLinks(content.lines))

\* Lines 43-45 of validate_file, given rel_source.
BeginFile(markdown_file, rel) ==
  IF rel = NoneStr THEN FinishFile(<<>>) ELSE ReadFile(rel, ReadText(markdown_file))

\* validate_file up to its loop (lines 42-60): the root-relative path, the
\* read, the extraction of the links.
ValidateFile ==
  /\ pc = "file"
  /\ file_idx <= Len(markdown_files)
  /\ BeginFile(markdown_files[file_idx], RelPath(markdown_files[file_idx]))
  /\ UNCHANGED <<git_tracked, disk, markdown_files, tracked_files, tracked_dirs,
                 anchors_cache, started_warm>>

\* Lines 61-65 for one link: what the iteration adds, [ok, errors, cache].
LinkResult(url, line_num) ==
  IF url = <<>> \/ ShouldIgnoreLink(url)
  THEN [ok |-> TRUE, raised |-> "", errors |-> <<>>, cache |-> anchors_cache]
  ELSE ValidateLink(LinkCall(rel_source, markdown_files[file_idx], url, line_num,
                             anchors_cache))

\* The iteration ends with result r; after the last link validate_file
\* returns (line 67).
LinkDone(r) ==
  IF ~r.ok THEN Raise(r.raised) /\ UNCHANGED anchors_cache
  ELSE /\ anchors_cache' = r.cache
       /\ IF link_idx = Len(links) THEN FinishFile(file_errors \o r.errors)
          ELSE /\ file_errors' = file_errors \o r.errors
               /\ link_idx' = link_idx + 1
               /\ UNCHANGED <<pc, file_idx, errors, rel_source, links, returned>>

\* One iteration of the loop of validate_file (lines 60-65).
ValidateLinkStep ==
  /\ pc = "links"
  /\ LinkDone(LinkResult(NormalizeLinkDestination(links[link_idx][1]), links[link_idx][2]))
  /\ UNCHANGED <<git_tracked, disk, markdown_files, tracked_files, tracked_dirs,
                 started_warm>>

\* validate_files returns errors (line 40).
ReturnErrors ==
  /\ pc = "file"
  /\ file_idx > Len(markdown_files)
  /\ returned' = Append(returned, [ok |-> TRUE, errors |-> errors, raised |-> "",
                                   warm |-> started_warm])
  /\ pc' = "idle"
  /\ file_idx' = 0
  /\ errors' = <<>>
  /\ UNCHANGED <<git_tracked, disk, markdown_files, tracked_files, tracked_dirs,
                 anchors_cache, rel_source, links, link_idx, file_errors, started_warm>>

Next ==
  \/ NewValidator
  \/ CallValidateFiles
  \/ ValidateFile
  \/ ValidateLinkStep
  \/ ReturnErrors

Spec == Init /\ [][Next]_vars

\* ------------------------------------------------------------------------
\* A document with every kind of destination
\* ------------------------------------------------------------------------

\* The two headings of the slug examples, a heading with a run of two
\* spaces, and links to the anchors of the first two (the last link with the
\* doubled hyphen collapsed).
KindsHeadings ==
  << <<"#", " ", "Spec", "-", "Driven", " ", "Development">>,
     <<"#", " ", "A", ",", " ", "B", " ", "&", " ", "C">>,
     <<"#", " ", "Setup", " ", " ", "Guide">>,
     LinkLine(<< <<"#", "spec", "-", "driven", "-", "development">>,
                 <<"#", "a", "-", "b", "-", "-", "c">>,
                 <<"#", "a", "-", "b", "-", "c">> >>) >>

\* Destinations with a scheme or a host, whose path and fragment would name
\* docs/b.md and an anchor it does not have.
ExternalDests ==
  << <<"https", ":", "/", "/", "x", ".", "y", "/", "docs", "/", "b", ".", "md", "#", "nope">>,
     <<"/", "/", "x", ".", "y", "/", "docs", "/", "b", ".", "md", "#", "nope">>,
     <<"file", ":", "docs", "/", "b", ".", "md", "#", "nope">> >>

\* Destinations of the ignore list of _should_ignore_link, most of them
\* naming no tracked path, the last one docs/b.md with a fragment.
IgnoredDests ==
  << <<"#">>,
     <<"MAILTO", ":", "x">>,
     <<"tel", ":", "1">>,
     <<"javascript", ":", "x">>,
     <<"{", "{", "x", "}", "}", ".", "md">>,
     <<"a", "}", "}", "b">>,
     <<"a", "<", "b">>,
     <<"a", ">", "b">>,
     <<"Example", ".", "COM", "/", "x", ".", "md">>,
     <<"/", "path", "/", "to", "/", "x", ".", "md">>,
     <<"path", "/", "to", "/", "x", ".", "md">>,
     <<"docs", "/", "b", ".", "md", "#", "{", "{", "x", "}", "}">> >>

\* Destinations naming the directories docs/sub, v.md and docs, with and
\* without a fragment and a trailing slash.
DirectoryDests ==
  << <<"docs", "/", "sub">>,
     <<"docs", "/", "sub", "#", "f">>,
     <<"docs", "/", "sub", "/", "#", "f">>,
     <<"v", ".", "md">>,
     <<"v", ".", "md", "#", "f">>,
     <<"v", ".", "md", "/", "#", "f">>,
     <<"docs", "#", "intro">> >>

\* Text of README.md: the headings, then one line of links per kind.
KindsText ==
  KindsHeadings \o << LinkLine(ExternalDests), LinkLine(IgnoredDests), LinkLine(DirectoryDests) >>

\* The disk with that README.md.
KindsDisk ==
  [p \in Universe |->
     CASE p = ReadmeMd -> File(KindsText)
       [] p = DocsBMd -> File(DocsBText)
       [] p = DocsReadmeMd -> File(DocsReadmeText)
       [] OTHER -> File(<<>>)]

\* The state after MarkdownLinkValidator(repo_root) in a repository with any
\* tracked set and that README.md, which the caller validates.
InitKinds ==
  /\ git_tracked \in SUBSET Universe
  /\ disk = KindsDisk
  /\ markdown_files = << RepoRoot \o << ReadmeMd >> >>
  /\ tracked_files = git_tracked
  /\ tracked_dirs = BuildTrackedDirs(git_tracked)
  /\ anchors_cache = << >>
  /\ pc = "idle"
  /\ file_idx = 0
  /\ errors = <<>>
  /\ rel_source = NoneStr
  /\ links = <<>>
  /\ link_idx = 0
  /\ file_errors = <<>>
  /\ started_warm = FALSE
  /\ returned = <<>>

SpecKinds == InitKinds /\ [][Next]_vars

\* ------------------------------------------------------------------------
\* Two documents with the same paths
\* ------------------------------------------------------------------------

\* Link paths that begin with "/" (the last ones name the root itself and a
\* file nobody tracks).
AbsoluteDests ==
  << <<"/", "docs", "/", "b", ".", "md">>,
     <<"/", "README", ".", "md", "#", "intro">>,
     <<"/", "docs", "/", ".", ".", "/", "README", ".", "md">>,
     <<"/", ".", ".", "/", "repo", "/", "README", ".", "md">>,
     <<"/">>,
     <<"/", "#", "intro">>,
     <<"/", "nope", ".", "md", "#", "intro">> >>

\* Link paths relative to the directory of the document (the last ones name
\* that directory and its parent).
RelativeDests ==
  << <<"b", ".", "md">>,
     <<"README", ".", "md">>,
     <<".", "/", "b", ".", "md">>,
     <<".", ".", "/", "README", ".", "md", "#", "intro">>,
     <<"docs", "/", ".", "/", "b", ".", "md">>,
     <<".">>,
     <<".", ".">>,
     <<".", ".", "/", "#", "intro">> >>

\* Link paths that climb out of the directory of the document and name the
\* root directory "repo" on the way down again, or do not come back.
ClimbingDests ==
  << <<".", ".", "/", "repo", "/", "README", ".", "md">>,
     <<".", ".", "/", ".", ".", "/", "repo", "/", "README", ".", "md", "#", "intro">>,
     <<".", ".", "/", ".", ".", "/", "repo", "/", "nope", ".", "md", "#", "intro">>,
     <<".", ".", "/", ".", ".", "/", "x", ".", "md", "#", "intro">> >>

\* The text README.md and docs/b.md both hold: the heading "Intro" and one
\* line of links per group.
PathsText ==
  << <<"#", " ", "Intro">>,
     LinkLine(AbsoluteDests), LinkLine(RelativeDests), LinkLine(ClimbingDests) >>

\* The disk with these two documents.
PathsDisk ==
  [p \in Universe |->
     CASE p = ReadmeMd -> File(PathsText)
       [] p = DocsBMd -> File(PathsText)
       [] p = DocsReadmeMd -> File(DocsReadmeText)
       [] OTHER -> File(<<>>)]

\* The state after MarkdownLinkValidator(repo_root) in a repository with any
\* tracked set and these documents; the caller validates README.md, then
\* docs/b.md.
InitPaths ==
  /\ git_tracked \in SUBSET Universe
  /\ disk = PathsDisk
  /\ markdown_files = << RepoRoot \o << ReadmeMd >>,
                         RepoRoot \o << <<"docs">>, <<"b", ".", "md">> >> >>
  /\ tracked_files = git_tracked
  /\ tracked_dirs = BuildTrackedDirs(git_tracked)
  /\ anchors_cache = << >>
  /\ pc = "idle"
  /\ file_idx = 0
  /\ errors = <<>>
  /\ rel_source = NoneStr
  /\ links = <<>>
  /\ link_idx = 0
  /\ file_errors = <<>>
  /\ started_warm = FALSE
  /\ returned = <<>>

SpecPaths == InitPaths /\ [][Next]_vars

\* ------------------------------------------------------------------------
\* Documents edited while a validator lives
\* ------------------------------------------------------------------------

\* The states README.md and docs/b.md are edited between: present with
\* their text, or absent.
EditStates(p) ==
  IF p = ReadmeMd THEN {File(ReadmeText), Absent} ELSE {File(DocsBText), Absent}
EditDisks ==
  {[p \in Universe |->
      CASE p = ReadmeMd -> r
        [] p = DocsBMd -> b
        [] p = DocsReadmeMd -> File(DocsReadmeText)
        [] OTHER -> File(<<>>)] :
     r \in EditStates(ReadmeMd), b \in EditStates(DocsBMd)}

\* The document lists validated while the documents are edited: README.md
\* alone, and the two documents in either order.
EditBatches ==
  { << RepoRoot \o << ReadmeMd >> >>,
    << RepoRoot \o << ReadmeMd >>, RepoRoot \o << <<"docs">>, <<"b", ".", "md">> >> >>,
    << RepoRoot \o << <<"docs">>, <<"b", ".", "md">> >>, RepoRoot \o << ReadmeMd >> >> }

\* The state after MarkdownLinkValidator(repo_root) in a repository where
\* every file is tracked.
InitEdit ==
  /\ git_tracked = Universe
  /\ disk \in EditDisks
  /\ markdown_files \in EditBatches
  /\ tracked_files = git_tracked
  /\ tracked_dirs = BuildTrackedDirs(git_tracked)
  /\ anchors_cache = << >>
  /\ pc = "idle"
  /\ file_idx = 0
  /\ errors = <<>>
  /\ rel_source = NoneStr
  /\ links = <<>>
  /\ link_idx = 0
  /\ file_errors = <<>>
  /\ started_warm = FALSE
  /\ returned = <<>>

\* Someone writes or deletes README.md or docs/b.md, at any moment of the
\* validator's life: read_text (lines 48 and 192) finds what is on disk when
\* it is called.
EditDocument ==
  /\ \E p \in {ReadmeMd, DocsBMd} :
       \E f \in EditStates(p) :
         /\ f # disk[p]
         /\ disk' = [disk EXCEPT ![p] = f]
  /\ UNCHANGED <<git_tracked, markdown_files, tracked_files, tracked_dirs, anchors_cache,
                 pc, file_idx, errors, rel_source, links, link_idx, file_errors,
                 started_warm, returned>>

NextEdit ==
  \/ Next
  \/ EditDocument

SpecEdit == InitEdit /\ [][NextEdit]_vars

\* ------------------------------------------------------------------------
\* A document whose heading is rewritten while a validator lives
\* ------------------------------------------------------------------------

\* docs/b.md after its heading "Setup" was replaced by "Intro".
DocsBTextIntro == << <<"#", " ", "Intro">> >> \o Tail(DocsBText)

\* The disk with README.md and docs/b.md, docs/b.md holding the given lines.
RewriteDisk(lines) ==
  [p \in Universe |->
     CASE p = ReadmeMd -> File(ReadmeText)
       [] p = DocsBMd -> File(lines)
       [] p = DocsReadmeMd -> File(DocsReadmeText)
       [] OTHER -> File(<<>>)]

\* The state after MarkdownLinkValidator(repo_root) in a repository where
\* every file is tracked and docs/b.md has the heading "Setup"; the caller
\* validates README.md alone, or the two documents in either order.
InitRewrite ==
  /\ git_tracked = Universe
  /\ disk = RewriteDisk(DocsBText)
  /\ markdown_files \in EditBatches
  /\ tracked_files = git_tracked
  /\ tracked_dirs = BuildTrackedDirs(git_tracked)
  /\ anchors_cache = << >>
  /\ pc = "idle"
  /\ file_idx = 0
  /\ errors = <<>>
  /\ rel_source = NoneStr
  /\ links = <<>>
  /\ link_idx = 0
  /\ file_errors = <<>>
  /\ started_warm = FALSE
  /\ returned = <<>>

\* Someone replaces the heading of docs/b.md by the other one, at any
\* moment of the validator's life: read_text (line 192) finds what is on
\* disk when it is called.
RewriteHeading ==
  /\ disk' = IF disk = RewriteDisk(DocsBText) THEN RewriteDisk(DocsBTextIntro)
             ELSE RewriteDisk(DocsBText)
  /\ UNCHANGED <<git_tracked, markdown_files, tracked_files, tracked_dirs, anchors_cache,
                 pc, file_idx, errors, rel_source, links, link_idx, file_errors,
                 started_warm, returned>>

NextRewrite ==
  \/ Next
  \/ RewriteHeading

SpecRewrite == InitRewrite /\ [][NextRewrite]_vars

\* ------------------------------------------------------------------------
\* Documents drawn line by line
\* ------------------------------------------------------------------------

\* The longest drawn document, in lines.
MaxLines == 4

\* The lines a drawn document is made of: a backtick fence delimiter; an
\* indented tilde fence delimiter followed by link syntax; the heading
\* "Foo"; a link to the anchor of that heading; a link whose destination is
\* blank; and link syntax that is not complete (no destination, then no
\* closing parenthesis).
BacktickFence == <<BT, BT, BT>>
TildeFence == <<" ", " ", "~", "~", "~", " ">> \o Link("x", <<"#", "foo">>)
HeadingFoo == <<"#", " ", "Foo">>
LinkFoo == Link("x", <<"#", "foo">>)
BlankDest == Link("x", <<" ">>)
Incomplete == <<"[", "x", "]", "(", ")", " ", "[", "x", "]", "(", "#", "foo">>
LineKinds == {BacktickFence, TildeFence, HeadingFoo, LinkFoo, BlankDest, Incomplete}
Texts == UNION {[1..n -> LineKinds] : n \in 0..MaxLines}

\* Text of docs/b.md next to a drawn README.md: the heading "Foo" twice
\* with the heading "Guide" in between, links to its own anchors, and links
\* to the first three anchors a heading "Foo" can get in README.md.
DocsBTextFoo ==
  << HeadingFoo,
     <<"#", "#", " ", "Guide">>,
     HeadingFoo,
     LinkLine(<< <<"#", "foo">>, <<"#", "foo", "-", "1">> >>),
     LinkLine(<< <<".", ".", "/", "README", ".", "md", "#", "foo">>,
                 <<".", ".", "/", "README", ".", "md", "#", "foo", "-", "1">>,
                 <<".", ".", "/", "README", ".", "md", "#", "foo", "-", "2">> >>) >>

\* The disks with a drawn README.md.
TextDisks ==
  {[p \in Universe |->
      CASE p = ReadmeMd -> File(t)
        [] p = DocsBMd -> File(DocsBTextFoo)
        [] p = DocsReadmeMd -> File(DocsReadmeText)
        [] OTHER -> File(<<>>)] : t \in Texts}

\* The state after MarkdownLinkValidator(repo_root) in a repository where
\* every file is tracked and README.md holds a drawn text; the caller
\* validates README.md, then docs/b.md.
InitText ==
  /\ git_tracked = Universe
  /\ disk \in TextDisks
  /\ markdown_files = << RepoRoot \o << ReadmeMd >>,
                         RepoRoot \o << <<"docs">>, <<"b", ".", "md">> >> >>
  /\ tracked_files = git_tracked
  /\ tracked_dirs = BuildTrackedDirs(git_tracked)
  /\ anchors_cache = << >>
  /\ pc = "idle"
  /\ file_idx = 0
  /\ errors = <<>>
  /\ rel_source = NoneStr
  /\ links = <<>>
  /\ link_idx = 0
  /\ file_errors = <<>>
  /\ started_warm = FALSE
  /\ returned = <<>>

SpecText == InitText /\ [][Next]_vars

\* ------------------------------------------------------------------------
\* A line drawn from links and backticks
\* ------------------------------------------------------------------------

MaxPieces == 4

\* The pieces a drawn line is made of: a backtick, a link to an anchor, a
\* link to docs/b.md, and a space.
LinkIntro == Link("x", <<"#", "intro">>)
LinkDocsB == Link("x", <<"docs", "/", "b", ".", "md">>)
SpanPieces == {<<BT>>, LinkIntro, LinkDocsB, <<" ">>}
RECURSIVE Concat(_)
Concat(pieces) == IF pieces = <<>> THEN <<>> ELSE Head(pieces) \o Concat(Tail(pieces))
SpanLines == {Concat(ps) : ps \in UNION {[1..n -> SpanPieces] : n \in 1..MaxPieces}}

\* The disks where README.md is one drawn line.
SpanDisks ==
  {[p \in Universe |->
      CASE p = ReadmeMd -> File(<<line>>)
        [] p = DocsBMd -> File(DocsBText)
        [] p = DocsReadmeMd -> File(DocsReadmeText)
        [] OTHER -> File(<<>>)] : line \in SpanLines}

\* The state after MarkdownLinkValidator(repo_root) in a repository where
\* every file is tracked and README.md is one drawn line, which the caller
\* validates.
InitSpans ==
  /\ git_tracked = Universe
  /\ disk \in SpanDisks
  /\ markdown_files = << RepoRoot \o << ReadmeMd >> >>
  /\ tracked_files = git_tracked
  /\ tracked_dirs = BuildTrackedDirs(git_tracked)
  /\ anchors_cache = << >>
  /\ pc = "idle"
  /\ file_idx = 0
  /\ errors = <<>>
  /\ rel_source = NoneStr
  /\ links = <<>>
  /\ link_idx = 0
  /\ file_errors = <<>>
  /\ started_warm = FALSE
  /\ returned = <<>>

SpecSpans == InitSpans /\ [][Next]_vars

\* ------------------------------------------------------------------------
\* Documents drawn heading by heading
\* ------------------------------------------------------------------------

MaxHeadingLines == 3

\* The lines a drawn document of headings is made of: "## Setup ##" with a
\* closing run; "> ## Setup" in a block quote; "Foo" after seven "#"; the
\* underline "==="; the headings "Foo", "Foo-1" and "!!!" (whose slug is
\* empty); "Setup" after six "#"; and "#Setup" with no space.
AtxClosed == <<"#", "#", " ", "Setup", " ", "#", "#">>
AtxQuoted == <<">", " ", "#", "#", " ", "Setup">>
SevenHashes == <<"#", "#", "#", "#", "#", "#", "#", " ", "Foo">>
Underline == <<"=", "=", "=">>
HeadingFoo1 == <<"#", " ", "Foo", "-", "1">>
HeadingBang == <<"#", " ", "!", "!", "!">>
SixHashes == <<"#", "#", "#", "#", "#", "#", " ", "Setup">>
NoSpace == <<"#", "Setup">>
HeadingKinds ==
  {AtxClosed, AtxQuoted, SevenHashes, Underline, HeadingFoo, HeadingFoo1, HeadingBang,
   SixHashes, NoSpace}
HeadingTexts == UNION {[1..n -> HeadingKinds] : n \in 1..MaxHeadingLines}

\* Text of docs/b.md next to a drawn README.md: links to two anchors of
\* README.md.
DocsBTextHeadings ==
  << LinkLine(<< <<".", ".", "/", "README", ".", "md", "#", "setup">>,
                 <<".", ".", "/", "README", ".", "md", "#", "foo", "-", "1">> >>) >>

\* The disks with a README.md of drawn headings.
HeadingDisks ==
  {[p \in Universe |->
      CASE p = ReadmeMd -> File(t)
        [] p = DocsBMd -> File(DocsBTextHeadings)
        [] p = DocsReadmeMd -> File(DocsReadmeText)
        [] OTHER -> File(<<>>)] : t \in HeadingTexts}

\* The state after MarkdownLinkValidator(repo_root) in a repository where
\* every file is tracked and README.md holds drawn headings; the caller
\* validates docs/b.md.
InitHeadings ==
  /\ git_tracked = Universe
  /\ disk \in HeadingDisks
  /\ markdown_files = << RepoRoot \o << <<"docs">>, <<"b", ".", "md">> >> >>
  /\ tracked_files = git_tracked
  /\ tracked_dirs = BuildTrackedDirs(git_tracked)
  /\ anchors_cache = << >>
  /\ pc = "idle"
  /\ file_idx = 0
  /\ errors = <<>>
  /\ rel_source = NoneStr
  /\ links = <<>>
  /\ link_idx = 0
  /\ file_errors = <<>>
  /\ started_warm = FALSE
  /\ returned = <<>>

SpecHeadings == InitHeadings /\ [][Next]_vars

\* ------------------------------------------------------------------------
\* Properties
\* ------------------------------------------------------------------------

\* Everything the running validate_files call has collected so far.
AllErrors == errors \o file_errors

\* How the decision procedure classifies a link of document src: kind is
\* "skipped" (empty, ignored, external or unparsable), "nothing" (no path, no
\* fragment), "same" (no path, a fragment), "null" (a path with a NUL),
\* "outside" or "inside" (the resolved path against the root); target is the
\* resolved path and rel_target its root-relative form when inside.
LinkCase(kind, url, line, src, fragment, raw_path, target) ==
  [kind |-> kind, url |-> url, line |-> line, src |-> src, fragment |-> fragment,
   raw_path |-> raw_path, target |-> target,
   rel_target |-> IF kind = "inside" THEN RelPath(target) ELSE NoneStr]
CaseResolved(url, line, src, fragment, raw_path, candidate) ==
  LinkCase(IF IsRelativeToRoot(candidate) THEN "inside" ELSE "outside",
           url, line, src, fragment, raw_path, candidate)
CasePath(url, line, src, fragment, raw_path) ==
  IF raw_path = <<>>
  THEN LinkCase(IF fragment # <<>> THEN "same" ELSE "nothing",
                url, line, src, fragment, raw_path, NonePath)
  ELSE IF Contains(raw_path, <<NUL>>)
  THEN LinkCase("null", url, line, src, fragment, raw_path, NonePath)
  ELSE CaseResolved(url, line, src, fragment, raw_path,
                    Candidate(src, PosixParts(raw_path)))
CaseParsed(url, line, src, parsed) ==
  IF \/ url = <<>>
     \/ ShouldIgnoreLink(url)
     \/ ~parsed.ok
     \/ parsed.scheme # <<>>
     \/ parsed.netloc # <<>>
  THEN LinkCase("skipped", url, line, src, <<>>, <<>>, NonePath)
  ELSE CasePath(url, line, src, Strip(Unquote(parsed.fragment)),
                Strip(Unquote(parsed.path)))
CaseOf(url, line, src) == CaseParsed(url, line, src, UrlSplit(url))

\* The link the loop of validate_file is at (when pc = "links").
CurLink ==
  CaseOf(NormalizeLinkDestination(links[link_idx][1]), links[link_idx][2],
         markdown_files[file_idx])

\* The headings' anchors of the text a path holds on disk; no anchor when
\* there is no such file.
AnchorsOnDisk(path) == AnchorsOfContent(ReadRel(RelPath(path)))

\* The file at rel, if any, holds text.
HoldsText(rel) == rel \notin DOMAIN disk \/ ~disk[rel].present \/ disk[rel].utf8

\* rel names a directory of the tracked set: some tracked file lies below it.
IsDirPrefix(rel) == \E f \in tracked_files : StartsWith(f, rel \o <<"/">>)

\* The 'anchor not found' error of link k against the document target.
AnchorError(k, target) ==
  [source_file |-> RelPath(k.src), source_line |-> k.line, link |-> k.url,
   message |-> <<MsgAnchor, <<"#">> \o k.fragment, RelPath(target)>>]

\* The iteration of the current link appends exactly the errors added.
Appends(added) == AllErrors' = AllErrors \o added

\* Helper of C1: what C1 asks of the iteration of link k.
C1Step(k) ==
  (k.kind = "same" /\ (<<"#">> \o k.fragment) \notin AnchorsOnDisk(k.src))
    => Appends(<< AnchorError(k, k.src) >>)

\* C1: a same-document anchor #F whose '#F' is not among the anchors of the
\* source document adds exactly one 'anchor not found' error, carrying the
\* source's root-relative path, the link's line, and naming the source
\* document as the one searched.
C1_SameDocumentAnchor == [][pc = "links" => C1Step(CurLink)]_vars

\* README.md has just been charged one error for its first [x](#setup),
\* while the tracked docs/b.md does have a heading "Setup".
C1_Witness ==
  /\ pc = "links" /\ rel_source = ReadmeMd /\ link_idx = 3
  /\ file_errors = << MarkdownLinkError(ReadmeMd, 2, <<"#", "setup">>,
                                        <<MsgAnchor, <<"#", "setup">>, ReadmeMd>>) >>
  /\ DocsBMd \in tracked_files /\ disk[DocsBMd] = File(DocsBText)

\* Helper of C2: what C2 asks of the iteration of link k.
C2Step(k) ==
  (k.kind = "inside" /\ k.rel_target \notin tracked_files /\ ~IsDirPrefix(k.rel_target))
    => Appends(<< MarkdownLinkError(RelPath(k.src), k.line, k.url,
                                    <<MsgTarget, k.raw_path>>) >>)

\* C2: a link whose path resolves inside the root to a path that is neither
\* a tracked file nor a directory of the tracked set adds exactly one error,
\* 'target not found', and nothing else (no anchor error).
C2_UntrackedTarget == [][pc = "links" => C2Step(CurLink)]_vars

\* Helper of C3: what C3 asks of the iteration of link k.
C3Step(k) ==
  (/\ k.kind = "inside"
   /\ k.rel_target \in tracked_files
   /\ Lower(Suffix(k.target)) = <<".", "md">>
   /\ k.fragment # <<>>
   /\ HoldsText(k.rel_target))
    => Appends(IF (<<"#">> \o k.fragment) \in AnchorsOnDisk(k.target) THEN <<>>
               ELSE << AnchorError(k, k.target) >>)

\* C3: a link with fragment F to a tracked markdown file T adds no error when
\* '#F' is an anchor of T and exactly one 'anchor not found' error naming T
\* otherwise, whatever the anchors of the source document.
C3_TargetAnchor == [][pc = "links" => C3Step(CurLink)]_vars

\* README.md (heading "Intro" only) has passed docs/b.md#setup without an
\* error and has been charged one for docs/b.md#intro: docs/b.md has the
\* heading "Setup" only.
C3_Witness ==
  /\ pc = "links" /\ rel_source = ReadmeMd /\ link_idx = 6
  /\ DocsBMd \in tracked_files /\ disk[DocsBMd] = File(DocsBText)
  /\ Len(file_errors) = 3
  /\ file_errors[3] = MarkdownLinkError(ReadmeMd, 3,
                         <<"docs", "/", "b", ".", "md", "#", "intro">>,
                         <<MsgAnchor, <<"#", "intro">>, DocsBMd>>)

\* Helper of C4: what C4 asks of the iteration of link k, given the path of
\* the README.md of the directory.
C4Readme(k, readme_rel) ==
  (readme_rel \in tracked_files /\ HoldsText(readme_rel))
    => Appends(IF (<<"#">> \o k.fragment) \in AnchorsOnDisk(RootJoin(readme_rel))
               THEN <<>>
               ELSE << AnchorError(k, RootJoin(readme_rel)) >>)
C4Step(k) ==
  (/\ k.kind = "inside"
   /\ k.rel_target \notin tracked_files
   /\ IsDirPrefix(k.rel_target)
   /\ k.fragment # <<>>)
    => C4Readme(k, k.rel_target \o <<"/", "README", ".", "md">>)

\* C4: a link with fragment F to a directory D of the tracked set that is not
\* a tracked file and has a tracked D/README.md adds no error when '#F' is an
\* anchor of D/README.md and exactly one 'anchor not found' error naming
\* D/README.md otherwise.
C4_DirectoryReadme == [][pc = "links" => C4Step(CurLink)]_vars

\* README.md has passed docs/#guide without an error (docs/README.md has the
\* heading "Guide") and has been charged one for docs#intro, naming
\* docs/README.md.
C4_Witness ==
  /\ pc = "links" /\ rel_source = ReadmeMd /\ link_idx = 8
  /\ DocsReadmeMd \in tracked_files
  /\ file_errors # <<>>
  /\ file_errors[Len(file_errors)] =
       MarkdownLinkError(ReadmeMd, 4, <<"docs", "#", "intro">>,
                         <<MsgAnchor, <<"#", "intro">>, DocsReadmeMd>>)
  /\ \A i \in 1..Len(file_errors) : file_errors[i].link # <<"docs", "/", "#", "guide">>

\* Helper of C5: what C5 asks of the iteration of link k.
C5Step(k) ==
  k.kind = "outside"
    => Appends(<< MarkdownLinkError(RelPath(k.src), k.line, k.url,
                                    <<MsgOutside, k.raw_path>>) >>)

\* C5: a link whose resolved path is not inside the root adds exactly one
\* error, 'link resolves outside repository', and no other.
C5_OutsideRoot == [][pc = "links" => C5Step(CurLink)]_vars

\* README.md has been charged for ../x.md#intro: one error, out of the root.
C5_Witness ==
  /\ pc = "links" /\ rel_source = ReadmeMd /\ link_idx = 9
  /\ file_errors # <<>>
  /\ file_errors[Len(file_errors)] =
       MarkdownLinkError(ReadmeMd, 4, <<".", ".", "/", "x", ".", "md", "#", "intro">>,
                         <<MsgOutside, <<".", ".", "/", "x", ".", "md">>>>)

\* Helper of C6: what C6 asks of the iteration of link k.
C6Step(k) ==
  k.kind = "inside"
    => (Appends(<< MarkdownLinkError(RelPath(k.src), k.line, k.url,
                                     <<MsgTarget, k.raw_path>>) >>)
          <=> (k.rel_target \notin tracked_files /\ ~IsDirPrefix(k.rel_target)))

\* C6: whether the target exists is decided by the tracked set alone: a link
\* that resolves inside the root is charged 'target not found' exactly when
\* its resolved path is neither a tracked file nor a directory of the tracked
\* set, whatever the disk holds at that path.
C6_TrackedSetDecides == [][pc = "links" => C6Step(CurLink)]_vars

\* C7: processing a link never raises out of validate_files: the iteration
\* of a link never ends the call, which goes on to the next link or document.
C7_NeverRaises == [][pc = "links" => pc' # "idle"]_vars

\* Helper of C8: what C8 asks of validate_file on markdown_file.
C8Step(markdown_file) ==
  (RelPath(markdown_file) # NoneStr /\ ReadText(markdown_file).raised # "")
    => /\ pc' = "file"
       /\ file_idx' = file_idx + 1
       /\ Len(errors') = Len(errors) + 1
       /\ SubSeq(errors', 1, Len(errors)) = errors
       /\ errors'[Len(errors')].source_file = RelPath(markdown_file)
       /\ errors'[Len(errors')].source_line = 1
       /\ errors'[Len(errors')].link = <<>>

\* C8: a source document inside the root whose content cannot be read is
\* charged exactly one error, at line 1 with an empty link, and validate_files
\* moves on to the next document.
C8_UnreadableSource ==
  [][(pc = "file" /\ file_idx <= Len(markdown_files))
       => C8Step(markdown_files[file_idx])]_vars

\* C9: all validate_files calls over the unchanged repository end the same
\* way, with equal error lists in the same order (or the same exception),
\* whether the call found a warm anchor cache or a fresh validator.
C9_SameOutcome ==
  \A i, j \in 1..Len(returned) :
    returned[i].errors = returned[j].errors /\ returned[i].raised = returned[j].raised

\* A second call on the same validator (warm cache) over README.md and
\* docs/b.md has returned a list with anchor errors.
C9_Witness ==
  /\ Len(returned) = 2
  /\ returned[2].warm /\ returned[2].ok
  /\ \E i \in 1..Len(returned[2].errors) : returned[2].errors[i].message[1] = MsgAnchor
  /\ \E i \in 1..Len(returned[2].errors) : returned[2].errors[i].source_file = DocsBMd

\* The destinations of the links ls that lie on line n, in the order of ls.
DestsOfLine(sel) == [i \in 1..Len(sel) |-> sel[i][1]]
DestsOnLine(ls, n) == DestsOfLine(SelectSeq(ls, LAMBDA l : l[2] = n))

\* The links ls are in the order of the text: by line, and on a line (made of
\* links separated by spaces) from left to right.
InDocumentOrder(ls, text) ==
  /\ \A i \in 1..(Len(ls) - 1) : ls[i][2] <= ls[i + 1][2]
  /\ \A n \in 1..Len(text) :
       DestsOnLine(ls, n) # <<>> => text[n] = LinkLine(DestsOnLine(ls, n))

\* The iteration of link k appends what _validate_link returned for it, each
\* error carrying the link, its line and its document.
C10Link(k, found) ==
  /\ Appends(found)
  /\ \A i \in 1..Len(found) :
       /\ found[i].source_file = RelPath(k.src)
       /\ found[i].source_line = k.line
       /\ found[i].link = k.url

\* Helper of C10: what C10 asks of every step.
C10Step ==
  /\ (pc = "file" /\ pc' = "links")
       => /\ file_idx' = file_idx /\ link_idx' = 1 /\ AllErrors' = AllErrors
          /\ InDocumentOrder(links', ReadText(markdown_files[file_idx]).lines)
  /\ (pc = "file" /\ pc' = "file")
       => /\ file_idx' = file_idx + 1
          /\ SubSeq(errors', 1, Len(errors)) = errors
          /\ \A i \in (Len(errors) + 1)..Len(errors') :
               errors'[i].source_file = RelPath(markdown_files[file_idx])
  /\ (pc = "links" /\ pc' = "links")
       => file_idx' = file_idx /\ link_idx' = link_idx + 1 /\ links' = links
  /\ (pc = "links" /\ pc' = "file") => file_idx' = file_idx + 1 /\ link_idx = Len(links)
  /\ (pc = "links" /\ pc' # "idle")
       => C10Link(CurLink, LinkResult(CurLink.url, CurLink.line).errors)
  /\ (pc = "file" /\ pc' = "idle" /\ returned'[Len(returned')].ok)
       => returned'[Len(returned')].errors = errors

\* C10: errors are collected in discovery order and never deduplicated:
\* documents are taken in input order, the links of a document by line and
\* from left to right, every iteration appends its errors after all earlier
\* ones, and the list returned is the list collected.
C10_DiscoveryOrder == [][C10Step]_vars

\* A call over README.md then docs/b.md has returned: the two identical
\* errors of README.md's two [x](#setup) come first, side by side, and the
\* errors of docs/b.md last.
C10_Witness ==
  /\ Len(returned) >= 1 /\ returned[1].ok
  /\ Len(markdown_files) = 2
  /\ RelPath(markdown_files[1]) = ReadmeMd /\ RelPath(markdown_files[2]) = DocsBMd
  /\ Len(returned[1].errors) >= 3
  /\ returned[1].errors[1] = returned[1].errors[2]
  /\ returned[1].errors[1].link = <<"#", "setup">>
  /\ returned[1].errors[Len(returned[1].errors)].source_file = DocsBMd

\* ------------------------------------------------------------------------
\* Properties of the extractor, the slugger and the link kinds
\* ------------------------------------------------------------------------

\* Helpers of C11..C19: the text README.md holds; the kind of fence
\* delimiter a line is (three backticks or three tildes after the leading
\* spaces); and the fenced blocks of a text: a delimiter line opens a block
\* when none is open, and closes the open block when it is of the kind that
\* opened it.  OpenBefore is the kind of the block open when line n begins,
\* and line n is inside a block when one is open and the line does not
\* close it.
ReadmeLines == disk[ReadmeMd].lines
DelimiterAt(line, i, c) ==
  /\ \A j \in 1..(i - 1) : line[j] = " "
  /\ i + 2 <= Len(line)
  /\ \A j \in i..(i + 2) : line[j] = c
FenceKind(line) ==
  IF \E i \in 1..Len(line) : DelimiterAt(line, i, BT) THEN "backtick"
  ELSE IF \E i \in 1..Len(line) : DelimiterAt(line, i, "~") THEN "tilde"
  ELSE "none"
FenceAfter(open, kind) ==
  IF kind = "none" THEN open
  ELSE IF open = "none" THEN kind
  ELSE IF open = kind THEN "none"
  ELSE open
RECURSIVE OpenBefore(_, _)
OpenBefore(lines, n) ==
  IF n = 1 THEN "none" ELSE FenceAfter(OpenBefore(lines, n - 1), FenceKind(lines[n - 1]))
InsideFence(lines, n) ==
  OpenBefore(lines, n) # "none" /\ FenceKind(lines[n]) # OpenBefore(lines, n)

\* C11: none of the links extracted from a document is on a line inside a
\* fenced block, whatever the line holds (link syntax, a blank destination,
\* a delimiter of the other kind).
C11_NoLinkInsideFence ==
  (pc = "links" /\ rel_source = ReadmeMd) =>
    \A k \in 1..Len(links) : ~InsideFence(ReadmeLines, links[k][2])

\* The destination the loop of validate_file is at (when pc = "links"), and
\* what urlsplit makes of it.
CurUrl == NormalizeLinkDestination(links[link_idx][1])
CurParsed == UrlSplit(CurUrl)

\* Helper of C12: a scheme or a host is parsed from the current destination.
IsExternal(parsed) == parsed.ok /\ (parsed.scheme # <<>> \/ parsed.netloc # <<>>)

\* C12: the iteration of a link from whose destination a scheme or a host is
\* parsed adds no error and leaves the anchor cache as it is: nothing is
\* resolved or looked up for it.
C12_ExternalExcluded ==
  [][(pc = "links" /\ IsExternal(CurParsed))
       => (Appends(<<>>) /\ anchors_cache' = anchors_cache)]_vars

\* Witness of C12: https://x.y/docs/b.md#nope has been passed over: docs/b.md
\* is tracked and has no anchor "nope", yet there is no error for the link
\* and docs/b.md was not read for its anchors.
C12_Witness ==
  /\ pc = "links" /\ rel_source = ReadmeMd /\ link_idx = 5
  /\ disk = KindsDisk
  /\ links[4][1] = ExternalDests[1]
  /\ IsExternal(UrlSplit(links[4][1]))
  /\ DocsBMd \in tracked_files
  /\ DocsBMd \notin DOMAIN anchors_cache
  /\ Len(file_errors) = 1 /\ file_errors[1].source_line = 4

\* Helper of C13: the destinations the claim lists.
C13Listed(url) ==
  \/ url = <<"#">>
  \/ \E scheme \in {"mailto", "tel", "javascript"} : StartsWith(Lower(url), <<scheme, ":">>)
  \/ Contains(url, <<"{", "{">>) \/ Contains(url, <<"}", "}">>)
  \/ Contains(url, <<"<">>) \/ Contains(url, <<">">>)
  \/ Contains(Lower(url), <<"example", ".", "com">>)
  \/ Contains(url, <<"/", "path", "/", "to", "/">>)
  \/ StartsWith(url, <<"path", "/", "to", "/">>)

\* C13: the iteration of a link whose destination is '#', starts with
\* mailto:, tel: or javascript: in any letter case, or holds '{{', '}}', '<',
\* '>', 'example.com' in any letter case, '/path/to/' or a leading
\* 'path/to/', adds no error and looks up no anchors, whatever is tracked and
\* whatever fragment it carries.
C13_PlaceholdersIgnored ==
  [][(pc = "links" /\ C13Listed(CurUrl))
       => (Appends(<<>>) /\ anchors_cache' = anchors_cache)]_vars

\* Witness of C13: the twelve listed destinations of line 6 have been passed
\* over with no error, {{x}}.md and the others naming nothing tracked, and
\* docs/b.md#{{x}} naming a tracked document that was not read.
C13_Witness ==
  /\ pc = "links" /\ rel_source = ReadmeMd /\ link_idx = 19
  /\ disk = KindsDisk
  /\ \A i \in 7..18 : links[i][2] = 6 /\ C13Listed(links[i][1])
  /\ links[18][1] = IgnoredDests[12]
  /\ DocsBMd \in tracked_files
  /\ DocsBMd \notin DOMAIN anchors_cache
  /\ Len(file_errors) = 1 /\ file_errors[1].source_line = 4

\* Helper of C14: what C14 asks of the iteration of link k.
C14Step(k) ==
  (/\ k.kind = "inside"
   /\ k.rel_target \notin tracked_files
   /\ IsDirPrefix(k.rel_target)
   /\ (k.rel_target \o <<"/", "README", ".", "md">>) \notin tracked_files)
    => (Appends(<<>>) /\ anchors_cache' = anchors_cache)

\* C14: a link to a directory of the tracked set that has no tracked
\* README.md adds no error and looks up no anchors, with a fragment or
\* without one.
C14_DirectoryWithoutReadme == [][pc = "links" => C14Step(CurLink)]_vars

\* Helpers of C15: the identifier of occurrence number i + 1 of the heading
\* "Foo" (base slug foo), the number of headings "Foo" of a text, and the
\* texts without a fence delimiter.
FooAnchor(i) ==
  <<"#", "foo">> \o
    (IF i = 0 THEN <<>> ELSE <<"-", <<"1", "2", "3", "4", "5", "6", "7", "8", "9">>[i]>>)
FooHeadings(lines) == Cardinality({n \in 1..Len(lines) : lines[n] = HeadingFoo})
Unfenced(lines) == \A n \in 1..Len(lines) : FenceKind(lines[n]) = "none"

\* C15: a document whose headings have the base slug foo k times has exactly
\* the identifiers #foo, #foo-1, ..., #foo-(k-1) for them; the count is kept
\* per base slug (the heading "Guide" between the two "Foo" of docs/b.md
\* changes nothing) and starts afresh in every document (docs/b.md gets
\* #foo and #foo-1 whatever README.md had).
C15_DuplicateSlugs ==
  /\ (ReadmeMd \in DOMAIN anchors_cache /\ Unfenced(ReadmeLines))
       => anchors_cache[ReadmeMd] = {FooAnchor(i) : i \in 0..(FooHeadings(ReadmeLines) - 1)}
  /\ DocsBMd \in DOMAIN anchors_cache
       => anchors_cache[DocsBMd] = {FooAnchor(0), <<"#", "guide">>, FooAnchor(1)}

\* Witness of C15: README.md has the heading "Foo" three times and got #foo,
\* #foo-1 and #foo-2; docs/b.md, indexed after it, got its own #foo and
\* #foo-1.
C15_Witness ==
  /\ ReadmeLines = <<HeadingFoo, HeadingFoo, HeadingFoo>>
  /\ ReadmeMd \in DOMAIN anchors_cache
  /\ anchors_cache[ReadmeMd] =
       {<<"#", "foo">>, <<"#", "foo", "-", "1">>, <<"#", "foo", "-", "2">>}
  /\ DocsBMd \in DOMAIN anchors_cache
  /\ anchors_cache[DocsBMd] = {<<"#", "foo">>, <<"#", "guide">>, <<"#", "foo", "-", "1">>}

\* C16: the heading "Spec-Driven Development" has the slug
\* spec-driven-development and "A, B & C" the slug a-b--c; a run of two
\* spaces gives one hyphen ("Setup  Guide" gives setup-guide), the hyphens
\* are put in before ",", "&" and the like are removed, and the two hyphens
\* left next to each other stay two.
C16_SlugExamples ==
  ReadmeMd \in DOMAIN anchors_cache =>
    anchors_cache[ReadmeMd] =
      {<<"#", "spec", "-", "driven", "-", "development">>,
       <<"#", "a", "-", "b", "-", "-", "c">>,
       <<"#", "setup", "-", "guide">>}

\* Witness of C16: the anchors of the three headings have been computed, the
\* link #a-b--c was accepted and the link #a-b-c was charged an error.
C16_Witness ==
  /\ pc = "links" /\ rel_source = ReadmeMd /\ link_idx = 4
  /\ ReadmeLines = KindsText
  /\ <<"#", "a", "-", "b", "-", "-", "c">> \in anchors_cache[ReadmeMd]
  /\ file_errors = << MarkdownLinkError(ReadmeMd, 4, <<"#", "a", "-", "b", "-", "c">>,
                                        <<MsgAnchor, <<"#", "a", "-", "b", "-", "c">>, ReadmeMd>>) >>

\* C17: the extraction of the links of a document never raises: no
\* validate_files call ends with the IndexError of an extraction, whatever
\* the text holds (a blank destination, no destination, no closing
\* parenthesis).
C17_ExtractionNeverRaises ==
  \A i \in 1..Len(returned) : returned[i].raised # "IndexError"

\* Helper of C18: line m is a delimiter of the other kind inside an open
\* fence.
OtherKindAt(lines, m) ==
  OpenBefore(lines, m) # "none" /\ FenceKind(lines[m]) \notin {"none", OpenBefore(lines, m)}

\* C18: a delimiter of the other kind inside an open fence does not end the
\* fence: no link is extracted from the line after such a delimiter, and a
\* document whose headings are all inside fenced blocks has no anchor.
C18_MatchingDelimiters ==
  /\ (pc = "links" /\ rel_source = ReadmeMd) =>
       \A k \in 1..Len(links) :
         ~(links[k][2] > 1 /\ OtherKindAt(ReadmeLines, links[k][2] - 1))
  /\ (/\ ReadmeMd \in DOMAIN anchors_cache
      /\ \A n \in 1..Len(ReadmeLines) :
           ReadmeLines[n] = HeadingFoo => InsideFence(ReadmeLines, n))
       => anchors_cache[ReadmeMd] = {}

\* Helpers of C19: the lines of a text that hold the link [x](#foo) outside
\* every fenced block, and the texts in which every delimiter line either
\* opens a block or closes the one open (no delimiter of the other kind
\* inside a block).
ScannedLinkLines(lines) ==
  {n \in 1..Len(lines) : lines[n] = LinkFoo /\ OpenBefore(lines, n) = "none"}
PlainFences(lines) == \A m \in 1..Len(lines) : ~OtherKindAt(lines, m)

\* C19: every extracted link carries the 1-based index, in the whole text,
\* of the line it is on, the delimiter lines and the lines inside fences
\* being counted; the links come in line order, one for each link line
\* outside the fenced blocks.
C19_LineNumbers ==
  (pc = "links" /\ rel_source = ReadmeMd) =>
    /\ \A k \in 1..Len(links) :
         /\ links[k][2] \in 1..Len(ReadmeLines)
         /\ ReadmeLines[links[k][2]] = Link("x", links[k][1])
    /\ \A k \in 1..(Len(links) - 1) : links[k][2] < links[k + 1][2]
    /\ PlainFences(ReadmeLines) =>
         {links[k][2] : k \in 1..Len(links)} = ScannedLinkLines(ReadmeLines)

\* Witness of C19: the link after a fenced block of three lines is numbered
\* 4, three later than on the first line.
C19_Witness ==
  /\ pc = "links" /\ rel_source = ReadmeMd
  /\ ReadmeLines = <<BacktickFence, HeadingFoo, BacktickFence, LinkFoo>>
  /\ links = << <<<<"#", "foo">>, 4>> >>

\* Helpers of C20: the document whose anchors the iteration of link k looks
\* up (the source, a tracked .md file, or the README.md of a directory), and
\* what C20 asks of the iteration when that document's set is stored.
C20Target(k, readme_rel) ==
  IF k.kind = "same" THEN RelPath(k.src)
  ELSE IF k.kind # "inside" \/ k.fragment = <<>> THEN NoneStr
  ELSE IF k.rel_target \in tracked_files
  THEN (IF EndsWith(k.rel_target, <<".", "md">>) THEN k.rel_target ELSE NoneStr)
  ELSE IF IsDirPrefix(k.rel_target) /\ readme_rel \in tracked_files THEN readme_rel
  ELSE NoneStr
C20Stored(k, target) ==
  (target # NoneStr /\ target \in DOMAIN anchors_cache)
    => Appends(IF (<<"#">> \o k.fragment) \in anchors_cache[target]
               THEN <<>>
               ELSE << AnchorError(k, RootJoin(target)) >>)
C20Step(k) == C20Stored(k, C20Target(k, k.rel_target \o <<"/", "README", ".", "md">>))

\* C20: within one validator the anchor set of a document is computed at most
\* once: a path not yet stored gets the anchors of the text on disk at that
\* moment, a stored set is never replaced or dropped, and a link whose
\* document is stored is judged by the stored set, empty or not, whatever the
\* disk holds by then (a step that leaves the disk alone while the loop is at
\* a link is the iteration of that link).
C20_CachedOnce ==
  [][NewValidator \/
     (/\ \A rel \in DOMAIN anchors_cache :
           rel \in DOMAIN anchors_cache' /\ anchors_cache'[rel] = anchors_cache[rel]
      /\ \A rel \in DOMAIN anchors_cache' \ DOMAIN anchors_cache :
           anchors_cache'[rel] = AnchorsOnDisk(RootJoin(rel))
      /\ (pc = "links" /\ disk' = disk) => C20Step(CurLink))]_vars

\* Witness of C20: docs/b.md was absent when its anchors were first looked
\* up and the empty set was stored; it now exists with the heading "Setup",
\* and in a later call of the same validator README.md's docs/b.md#setup has
\* still been charged an error.
C20_Witness ==
  /\ pc = "links" /\ rel_source = ReadmeMd /\ link_idx = 5
  /\ started_warm
  /\ disk[DocsBMd] = File(DocsBText)
  /\ <<"#", "setup">> \in AnchorsOnDisk(RootJoin(DocsBMd))
  /\ DocsBMd \in DOMAIN anchors_cache /\ anchors_cache[DocsBMd] = {}
  /\ file_errors[Len(file_errors)] =
       MarkdownLinkError(ReadmeMd, 3, <<"docs", "/", "b", ".", "md", "#", "setup">>,
                         <<MsgAnchor, <<"#", "setup">>, DocsBMd>>)

\* ------------------------------------------------------------------------
\* Properties of path resolution, headings and the cache over edits
\* ------------------------------------------------------------------------

\* Helpers of C21: the segments of a link path, a stack of segments after
\* one more segment ("." changes nothing, ".." drops the last one, if any),
\* and the path a link path names: the segments applied one by one to the
\* root when the link path begins with "/", to the directory of the source
\* document otherwise.
PathSegments(raw_path) == SelectSeq(SplitOn(raw_path, "/"), LAMBDA seg : seg # <<>>)
ApplySegment(stack, seg) ==
  IF seg = <<".">> THEN stack
  ELSE IF seg = <<".", ".">> THEN (IF stack = <<>> THEN stack ELSE SubSeq(stack, 1, Len(stack) - 1))
  ELSE Append(stack, seg)
RECURSIVE ApplySegments(_, _)
ApplySegments(stack, segs) ==
  IF segs = <<>> THEN stack ELSE ApplySegments(ApplySegment(stack, Head(segs)), Tail(segs))
NamedPath(src, raw_path) ==
  ApplySegments(IF Head(raw_path) = "/" THEN RepoRoot ELSE SubSeq(src, 1, Len(src) - 1),
                PathSegments(raw_path))
UnderRoot(path) == Len(path) >= Len(RepoRoot) /\ SubSeq(path, 1, Len(RepoRoot)) = RepoRoot
RootRelative(path) ==
  IF path = RepoRoot THEN <<".">> ELSE Join(SubSeq(path, Len(RepoRoot) + 1, Len(path)), "/")

\* Helper of C21: what C21 asks of the iteration of link k, given the path
\* its link path names.
C21Named(k, named) ==
  /\ ~UnderRoot(named)
       => Appends(<< MarkdownLinkError(RelPath(k.src), k.line, k.url,
                                       <<MsgOutside, k.raw_path>>) >>)
  /\ (/\ UnderRoot(named)
      /\ RootRelative(named) \notin tracked_files
      /\ ~IsDirPrefix(RootRelative(named)))
       => Appends(<< MarkdownLinkError(RelPath(k.src), k.line, k.url,
                                       <<MsgTarget, k.raw_path>>) >>)
  /\ (UnderRoot(named) /\ RootRelative(named) \in tracked_files /\ k.fragment = <<>>)
       => Appends(<<>>)
  /\ (/\ UnderRoot(named)
      /\ RootRelative(named) \in tracked_files
      /\ k.fragment # <<>>
      /\ EndsWith(RootRelative(named), <<".", "md">>))
       => Appends(IF (<<"#">> \o k.fragment) \in AnchorsOnDisk(named)
                  THEN <<>>
                  ELSE << AnchorError(k, named) >>)
C21Step(k) == k.raw_path # <<>> => C21Named(k, NamedPath(k.src, k.raw_path))

\* C21: a link path that begins with "/" is resolved from the root, whatever
\* directory the source document is in, and any other link path from the
\* directory of the source document; "." and ".." are worked off before the
\* path is tested for lying under the root and for being tracked, and it is
\* the resulting file whose anchors are looked up.
C21_PathResolution == [][pc = "links" => C21Step(CurLink)]_vars

\* Witness of C21: docs/b.md has gone through its links that begin with "/"
\* and through b.md and README.md: /docs/b.md and b.md name the tracked
\* docs/b.md and give no error, README.md names docs/README.md, which is not
\* tracked, and is charged, while /README.md#intro reached the root's
\* README.md.
C21_Witness ==
  /\ pc = "links" /\ rel_source = DocsBMd /\ link_idx = 10
  /\ disk = PathsDisk
  /\ tracked_files = {ReadmeMd, DocsBMd}
  /\ links[1][1] = AbsoluteDests[1] /\ links[8][1] = RelativeDests[1]
  /\ \A i \in 1..Len(file_errors) : file_errors[i].link \notin {links[1][1], links[2][1], links[8][1]}
  /\ file_errors[Len(file_errors)] =
       MarkdownLinkError(DocsBMd, 3, <<"README", ".", "md">>,
                         <<MsgTarget, <<"README", ".", "md">>>>)

\* Helpers of C26: link i of the document being validated is checked when
\* its destination is neither empty nor ignored; the kind of the error the
\* iteration of link k has added, given the path its link path names.
CheckedLink(i) ==
  /\ NormalizeLinkDestination(links[i][1]) # <<>>
  /\ ~C13Listed(NormalizeLinkDestination(links[i][1]))
CheckedBefore(n) == {i \in 1..(n - 1) : CheckedLink(i)}
C26Order(k, named, message) ==
  /\ ~UnderRoot(named) => message[1] = MsgOutside
  /\ (/\ UnderRoot(named)
      /\ RootRelative(named) \notin tracked_files
      /\ ~IsDirPrefix(RootRelative(named))) => message[1] = MsgTarget
  /\ message[1] = MsgAnchor
       => /\ UnderRoot(named)
          /\ RootRelative(named) \in tracked_files \/ IsDirPrefix(RootRelative(named))
C26Step(k) ==
  /\ Len(AllErrors') <= Len(AllErrors) + 1
  /\ ~CheckedLink(link_idx) => Len(AllErrors') <= Len(AllErrors)
  /\ (Len(AllErrors') = Len(AllErrors) + 1 /\ k.raw_path # <<>>)
       => C26Order(k, NamedPath(k.src, k.raw_path), AllErrors'[Len(AllErrors')].message)

\* C26: while the links of a document that could be read are validated, the
\* document has been charged no more errors than it has non-empty, not
\* ignored links so far; the iteration of one link adds at most one error and
\* none for an empty or ignored link; and the error added is 'outside'
\* whenever the named path is not under the root, 'target not found'
\* whenever it is under the root and does not exist, and 'anchor not found'
\* only when it is under the root and exists.
C26_OneErrorPerLink ==
  [][pc = "links"
       => /\ Len(file_errors) <= Cardinality(CheckedBefore(link_idx))
          /\ C26Step(CurLink)]_vars

\* Witness of C26: docs/b.md has been charged exactly one error, 'target not
\* found', for /nope.md#intro, a link with a fragment to a missing target,
\* and three errors for its first seven links.
C26_Witness ==
  /\ pc = "links" /\ rel_source = DocsBMd /\ link_idx = 8
  /\ disk = PathsDisk
  /\ tracked_files = {ReadmeMd, DocsBMd}
  /\ Cardinality(CheckedBefore(link_idx)) = 7
  /\ Len(file_errors) = 3
  /\ file_errors[3] =
       MarkdownLinkError(DocsBMd, 2, AbsoluteDests[7],
                         <<MsgTarget, <<"/", "nope", ".", "md">>>>)

\* Helpers of C22: the link syntax of a line (one of the two drawn links
\* beginning at position i); a position lies inside a code span when the
\* backticks before it are odd in number and one follows it; the
\* destinations of the links outside the spans, from position i on.
LinkSyntaxAt(line, i, l) ==
  i + Len(l) - 1 <= Len(line) /\ SubSeq(line, i, i + Len(l) - 1) = l
InSpan(line, i) ==
  /\ Cardinality({j \in 1..(i - 1) : line[j] = BT}) % 2 = 1
  /\ \E j \in (i + 1)..Len(line) : line[j] = BT
DestAt(line, i) ==
  IF InSpan(line, i) THEN <<>>
  ELSE IF LinkSyntaxAt(line, i, LinkIntro) THEN << <<"#", "intro">> >>
  ELSE IF LinkSyntaxAt(line, i, LinkDocsB) THEN << <<"docs", "/", "b", ".", "md">> >>
  ELSE <<>>
RECURSIVE DestsOutsideSpans(_, _)
DestsOutsideSpans(line, i) ==
  IF i > Len(line) THEN <<>> ELSE DestAt(line, i) \o DestsOutsideSpans(line, i + 1)
C22Extracts(line, dests) ==
  IF dests = <<>> THEN pc' = "file" /\ file_idx' = file_idx + 1
  ELSE /\ pc' = "links"
       /\ links' = [k \in 1..Len(dests) |-> <<dests[k], 1>>]

\* C22: from a line that is no fence delimiter, validate_file extracts the
\* links that lie outside the spans formed by pairing the single backticks
\* of the line from the left, in order, and none of the links inside such a
\* span; a backtick without a partner hides nothing.
C22_CodeSpansHidden ==
  [][(pc = "file" /\ file_idx = 1 /\ Len(ReadmeLines) = 1 /\ FenceKind(ReadmeLines[1]) = "none")
       => C22Extracts(ReadmeLines[1], DestsOutsideSpans(ReadmeLines[1], 1))]_vars

\* Witness of C22: of the line `[x](#intro)`[x](docs/b.md) only the second
\* link has been extracted.
C22_Witness ==
  /\ pc = "links" /\ rel_source = ReadmeMd
  /\ ReadmeLines = << <<BT>> \o LinkIntro \o <<BT>> \o LinkDocsB >>
  /\ InSpan(ReadmeLines[1], 2) /\ ~InSpan(ReadmeLines[1], 9)
  /\ links = << << <<"docs", "/", "b", ".", "md">>, 1 >> >>

\* Helpers of C23: a line without its leading block-quote markers and
\* blanks and its trailing blanks; the number of "#" it begins with; whether
\* that makes it an ATX heading; the heading text, without a closing run of
\* "#" that follows whitespace; a setext underline.
RECURSIVE C23Unquoted(_)
C23Unquoted(line) ==
  IF line # <<>> /\ Head(line) \in {" ", "\t", ">"} THEN C23Unquoted(Tail(line)) ELSE line
C23Body(line) == RStrip(C23Unquoted(line))
C23Hashes(body) == Cardinality({n \in 1..Len(body) : \A j \in 1..n : body[j] = "#"})
C23Level(line) == C23Hashes(C23Body(line))
C23IsAtx(line) ==
  /\ C23Level(line) \in 1..6
  /\ Len(C23Body(line)) > C23Level(line) + 1
  /\ IsSpace(C23Body(line)[C23Level(line) + 1])
C23ClosingRun(text) ==
  Cardinality({n \in 1..Len(text) : \A j \in (Len(text) - n + 1)..Len(text) : text[j] = "#"})
C23Unclosed(text, k) ==
  IF k > 0 /\ k < Len(text) /\ IsSpace(text[Len(text) - k])
  THEN RStrip(Take(text, Len(text) - k))
  ELSE text
C23Opened(body, n) == LStrip(Drop(body, n))
C23Text(line) ==
  C23Unclosed(C23Opened(C23Body(line), C23Level(line)),
              C23ClosingRun(C23Opened(C23Body(line), C23Level(line))))
C23Underline(line) ==
  /\ C23Body(line) # <<>>
  /\ \/ \A j \in 1..Len(C23Body(line)) : C23Body(line)[j] = "="
     \/ \A j \in 1..Len(C23Body(line)) : C23Body(line)[j] = "-"

\* The heading texts of a document without fences, from line i on: the text
\* of every ATX heading, and the line above a setext underline when it is no
\* ATX heading; with sevens = FALSE a line beginning with seven or more "#"
\* is no heading even above an underline.
RECURSIVE C23Headings(_, _, _)
C23Headings(lines, i, sevens) ==
  IF i > Len(lines) THEN <<>>
  ELSE IF C23IsAtx(lines[i])
  THEN <<C23Text(lines[i])>> \o C23Headings(lines, i + 1, sevens)
  ELSE IF i < Len(lines) /\ C23Underline(lines[i + 1])
  THEN (IF sevens \/ C23Level(lines[i]) < 7 THEN <<C23Body(lines[i])>> ELSE <<>>)
       \o C23Headings(lines, i + 2, sevens)
  ELSE C23Headings(lines, i + 1, sevens)
NoAnchors == [counts |-> << >>, anchors |-> {}]
RECURSIVE C23Anchors(_, _)
C23Anchors(texts, st) ==
  IF texts = <<>> THEN st.anchors
  ELSE C23Anchors(Tail(texts), AddHeadingAnchor(st, Head(texts)))

\* C23 as stated: the anchors stored for a document without fences come
\* from its ATX headings (one to six "#", whitespace, text, after the
\* block-quote markers; a closing run of "#" after whitespace dropped) and
\* its setext headings, and a line beginning with seven or more "#"
\* registers no anchor.
C23_AtxHeadings ==
  ReadmeMd \in DOMAIN anchors_cache
    => anchors_cache[ReadmeMd] = C23Anchors(C23Headings(ReadmeLines, 1, FALSE), NoAnchors)

\* C23, amended: the same, except that a line beginning with seven or more
\* "#" is ordinary text, so that it registers an anchor as a setext heading
\* when a setext underline follows it, and none otherwise.
C23_AtxHeadingsOrSetext ==
  ReadmeMd \in DOMAIN anchors_cache
    => anchors_cache[ReadmeMd] = C23Anchors(C23Headings(ReadmeLines, 1, TRUE), NoAnchors)

\* Witness of C23: "## Setup ##" and "> ## Setup" have registered #setup and
\* #setup-1, and the line of seven "#" after them nothing.
C23_Witness ==
  /\ ReadmeLines = <<AtxClosed, AtxQuoted, SevenHashes>>
  /\ ReadmeMd \in DOMAIN anchors_cache
  /\ anchors_cache[ReadmeMd] = {<<"#", "setup">>, <<"#", "setup", "-", "1">>}

\* Helpers of C24: the slugs of the headings of a document that are not
\* empty, and the anchors they get when nothing else is ever registered.
C24Slugs(texts) ==
  SelectSeq([k \in 1..Len(texts) |-> GithubHeadingSlug(texts[k])], LAMBDA b : b # <<>>)
RECURSIVE C24Anchors(_, _)
C24Anchors(slugs, st) ==
  IF slugs = <<>> THEN st.anchors ELSE C24Anchors(Tail(slugs), RegisterSlug(st, Head(slugs)))

\* C24: no stored anchor set contains the bare "#" or an identifier that
\* begins with a hyphen, and the anchors of a document are those its
\* headings with a non-empty slug would get if the headings with an empty
\* slug were not there.
C24_EmptySlugIgnored ==
  /\ \A rel \in DOMAIN anchors_cache :
       \A a \in anchors_cache[rel] : Len(a) >= 2 /\ a[2] # "-"
  /\ ReadmeMd \in DOMAIN anchors_cache
       => anchors_cache[ReadmeMd] =
            C24Anchors(C24Slugs(C23Headings(ReadmeLines, 1, TRUE)), NoAnchors)

\* Witness of C24: after the heading "!!!" twice, the heading "Foo" has
\* got #foo, and nothing else is stored.
C24_Witness ==
  /\ ReadmeLines = <<HeadingBang, HeadingBang, HeadingFoo>>
  /\ GithubHeadingSlug(C23Text(HeadingBang)) = <<>>
  /\ ReadmeMd \in DOMAIN anchors_cache
  /\ anchors_cache[ReadmeMd] = {<<"#", "foo">>}

\* C25: the stored anchor set of a document has as many identifiers as the
\* document has headings with a non-empty slug: every such heading gets an
\* identifier no earlier heading got.
C25_IdentifiersDistinct ==
  ReadmeMd \in DOMAIN anchors_cache
    => Cardinality(anchors_cache[ReadmeMd]) = Len(C24Slugs(C23Headings(ReadmeLines, 1, TRUE)))

\* Helper of C27: what C27 asks of the iteration of link k, given the path
\* its link path names.
C27Named(k, named) ==
  named = RepoRoot
    => /\ Appends(<< MarkdownLinkError(RelPath(k.src), k.line, k.url,
                                       <<MsgTarget, k.raw_path>>) >>)
       /\ anchors_cache' = anchors_cache
C27Step(k) == k.raw_path # <<>> => C27Named(k, NamedPath(k.src, k.raw_path))

\* C27: the root is never among the tracked directories, and a link whose
\* path names the root itself adds exactly one 'target not found' error and
\* looks up no anchors, with a fragment or without one, README.md being
\* tracked at the root or not.
C27_RootIsNoDirectory ==
  [][/\ <<".">> \notin tracked_dirs /\ <<>> \notin tracked_dirs
     /\ pc = "links" => C27Step(CurLink)]_vars

\* Witness of C27: with README.md tracked at the root, docs/b.md has been
\* charged 'target not found' for .. and for ../#intro.
C27_Witness ==
  /\ pc = "links" /\ rel_source = DocsBMd /\ link_idx = 16
  /\ disk = PathsDisk
  /\ tracked_files = {ReadmeMd, DocsBMd}
  /\ Len(file_errors) >= 2
  /\ file_errors[Len(file_errors) - 1] =
       MarkdownLinkError(DocsBMd, 3, <<".", ".">>, <<MsgTarget, <<".", ".">>>>)
  /\ file_errors[Len(file_errors)] =
       MarkdownLinkError(DocsBMd, 3, <<".", ".", "/", "#", "intro">>,
                         <<MsgTarget, <<".", ".", "/">>>>)

\* Helper of C28: what C28 asks of the iteration of link k when its target is
\* a tracked markdown file whose content cannot be read (no such file on
\* disk, or bytes that are not UTF-8) and whose anchors are not stored yet.
C28Step(k) ==
  (/\ k.kind = "inside"
   /\ k.rel_target \in tracked_files
   /\ Lower(Suffix(k.target)) = <<".", "md">>
   /\ ReadRel(k.rel_target).raised # ""
   /\ k.rel_target \notin DOMAIN anchors_cache)
    => IF k.fragment = <<>> THEN Appends(<<>>)
       ELSE /\ Appends(<< AnchorError(k, k.target) >>)
            /\ k.rel_target \in DOMAIN anchors_cache'
            /\ anchors_cache'[k.rel_target] = {}

\* C28: a link with a fragment to a tracked markdown file whose content
\* cannot be read adds exactly one 'anchor not found' error and stores the
\* empty anchor set for the target, and raises nothing; without a fragment
\* it adds no error.
C28_UnreadableTarget == [][pc = "links" => C28Step(CurLink)]_vars

\* Helpers of C29: the document whose anchors the iteration of link k looks
\* up, and what C29 asks of that iteration: against a stored set that the
\* headings on disk have moved away from, a heading added since is not
\* found and a heading removed since is accepted; with no set stored the
\* headings on disk decide.
C29Target(k) == C20Target(k, k.rel_target \o <<"/", "README", ".", "md">>)
C29Judged(k, target, anchor) ==
  /\ (/\ target \in DOMAIN anchors_cache
      /\ anchor \in AnchorsOnDisk(RootJoin(target)) \ anchors_cache[target])
       => Appends(<< AnchorError(k, RootJoin(target)) >>)
  /\ (/\ target \in DOMAIN anchors_cache
      /\ anchor \in anchors_cache[target] \ AnchorsOnDisk(RootJoin(target)))
       => Appends(<<>>)
  /\ (target \notin DOMAIN anchors_cache /\ HoldsText(target))
       => Appends(IF anchor \in AnchorsOnDisk(RootJoin(target))
                  THEN <<>>
                  ELSE << AnchorError(k, RootJoin(target)) >>)
C29Step(k) == C29Target(k) # NoneStr => C29Judged(k, C29Target(k), <<"#">> \o k.fragment)

\* C29: when the headings of a document change after a validator has stored
\* its anchors, a later call on the same validator still judges links to it
\* by the stored set (a heading added since is reported not found, a heading
\* removed since is accepted); a validator constructed afterwards starts
\* with nothing stored and judges by the headings on disk (between calls the
\* only steps that leave the disk alone are constructions).
C29_StaleUntilRebuilt ==
  [][/\ (pc = "idle" /\ pc' = "idle" /\ disk' = disk) => anchors_cache' = << >>
     /\ (pc = "links" /\ disk' = disk) => C29Step(CurLink)]_vars

\* Witness of C29: docs/b.md was stored with the heading "Setup" and has
\* the heading "Intro" now; in a second call of the same validator
\* README.md's docs/b.md#setup has passed and docs/b.md#intro has been
\* charged 'anchor not found'.
C29_Witness ==
  /\ pc = "links" /\ rel_source = ReadmeMd /\ link_idx = 6
  /\ started_warm
  /\ disk[DocsBMd] = File(DocsBTextIntro)
  /\ AnchorsOnDisk(RootJoin(DocsBMd)) = {<<"#", "intro">>}
  /\ DocsBMd \in DOMAIN anchors_cache /\ anchors_cache[DocsBMd] = {<<"#", "setup">>}
  /\ \A i \in 1..Len(file_errors) :
       file_errors[i].link # <<"docs", "/", "b", ".", "md", "#", "setup">>
  /\ file_errors[Len(file_errors)] =
       MarkdownLinkError(ReadmeMd, 3, <<"docs", "/", "b", ".", "md", "#", "intro">>,
                         <<MsgAnchor, <<"#", "intro">>, DocsBMd>>)

\* Helpers of C30: a link path climbs above the root when the path reached
\* after one of its segments is not under the root; what C30 asks of the
\* iteration of link k whose link path does so and names a path under the
\* root in the end.
RECURSIVE ClimbsAbove(_, _)
ClimbsAbove(stack, segs) ==
  \/ ~UnderRoot(stack)
  \/ segs # <<>> /\ ClimbsAbove(ApplySegment(stack, Head(segs)), Tail(segs))
ClimbsFrom(src, raw_path) ==
  ClimbsAbove(IF Head(raw_path) = "/" THEN RepoRoot ELSE SubSeq(src, 1, Len(src) - 1),
              PathSegments(raw_path))
C30Named(k, named) ==
  UnderRoot(named)
    => /\ \A e \in {AllErrors'[i] : i \in (Len(AllErrors) + 1)..Len(AllErrors')} :
            e.message[1] # MsgOutside
       /\ (RootRelative(named) \notin tracked_files /\ ~IsDirPrefix(RootRelative(named)))
            => Appends(<< MarkdownLinkError(RelPath(k.src), k.line, k.url,
                                            <<MsgTarget, k.raw_path>>) >>)
       /\ (RootRelative(named) \in tracked_files /\ k.fragment = <<>>) => Appends(<<>>)
C30Step(k) ==
  (k.raw_path # <<>> /\ ClimbsFrom(k.src, k.raw_path))
    => C30Named(k, NamedPath(k.src, k.raw_path))

\* C30: a link path that climbs above the root with ".." and comes back
\* under it by naming the root directory is not charged 'link resolves
\* outside repository': only the path it names in the end counts, and that
\* path is looked up in the tracked set like any other.
C30_ReentryIsInside == [][pc = "links" => C30Step(CurLink)]_vars

\* Witness of C30: README.md has passed ../repo/README.md, which names the
\* tracked README.md, without an error, and has been charged 'target not
\* found', not 'outside', for ../../repo/nope.md#intro.
C30_Witness ==
  /\ pc = "links" /\ rel_source = ReadmeMd /\ link_idx = 19
  /\ disk = PathsDisk
  /\ ReadmeMd \in tracked_files
  /\ links[16][1] = ClimbingDests[1]
  /\ ClimbsFrom(markdown_files[1], links[16][1])
  /\ \A i \in 1..Len(file_errors) : file_errors[i].link # links[16][1]
  /\ file_errors[Len(file_errors)] =
       MarkdownLinkError(ReadmeMd, 4, ClimbingDests[3],
                         <<MsgTarget, <<".", ".", "/", ".", ".", "/", "repo", "/", "nope", ".", "md">>>>)

====
